---------------------------- MODULE Spec2Model ----------------------------
(***************************************************************************)
(* A state-machine model of the whatsmeow client core: the recent-message  *)
(* ring (retry.go), the outbound and inbound retry engines (retry.go) and  *)
(* the stanza router, dispatch queue and connection lifecycle (client.go). *)
(*                                                                         *)
(* Each component has its own specification; a component's specification   *)
(* keeps the other components' variables at their initial values.          *)
(***************************************************************************)
EXTENDS Integers, Sequences, FiniteSets, TLC

(***************************************************************************)
(* Generic helpers for Go maps (xsync.MapOf), modelled as functions whose   *)
(* DOMAIN is the set of keys present.                                       *)
(***************************************************************************)
EmptyMap == [k \in {} |-> 0]

MapStore(m, key, val) == [k \in (DOMAIN m) \cup {key} |-> IF k = key THEN val ELSE m[k]]

MapDelete(m, key) == [k \in (DOMAIN m) \ {key} |-> m[k]]

Range(s) == {s[i] : i \in DOMAIN s}

(***************************************************************************)
(*                     RECENT-MESSAGE RING  (retry.go)                     *)
(***************************************************************************)
VARIABLES
    recentMessagesList,   \* the ring: a sequence of recentMessageKey, slot i+1 is Go index i
    recentMessagesMap,    \* key -> plaintext
    recentMessagesPtr,    \* Go index of the next slot to write, 0 .. len-1
    stored                \* history: the keys passed to addRecentMessage, in call order

ringVars == <<recentMessagesList, recentMessagesMap, recentMessagesPtr, stored>>

\* const recentMessagesSize = 256
recentMessagesSize == 256

\* Capacity of the scaled-down ring used where keys are drawn freely.
SmallRingSize == 3
\* Number of insertions past the capacity that the distinct-key run performs.
MaxExtra == 3
\* Number of addRecentMessage calls in the free-key run.
MaxAdds == 5
\* Message ids 1..MaxMsgID; the empty message id "" is NoID.
MaxMsgID == 2

\* types.MessageID "" (the zero value of a ring slot's ID)
NoID == 0
\* the zero types.JID of an unwritten ring slot
NoJID == "nojid"
JIDs == {"a@s", "b@s"}
\* plaintexts; Nil is the nil *waProto.Message
Nil == "nil"
Messages == {"m1", "m2"}

recentMessageKey(to, id) == [To |-> to, ID |-> id]

\* the zero value of recentMessageKey: what every slot of a new ring holds
ZeroKey == recentMessageKey(NoJID, NoID)

\* the keys held in ring slots the code regards as non-empty (ID != "")
NonEmptySlots == {i \in DOMAIN recentMessagesList : recentMessagesList[i].ID # NoID}

RingKeys == {recentMessagesList[i] : i \in NonEmptySlots}

\* addRecentMessage without the eviction of the overwritten slot's map entry
addRecentMessageNoEvict(to, id, message) ==
    LET key == recentMessageKey(to, id)
        slot == recentMessagesPtr + 1
    IN  /\ recentMessagesMap' = MapStore(recentMessagesMap, key, message)
        /\ recentMessagesList' = [recentMessagesList EXCEPT ![slot] = key]
        /\ recentMessagesPtr' =
              IF recentMessagesPtr + 1 >= Len(recentMessagesList) THEN 0
              ELSE recentMessagesPtr + 1
        /\ stored' = Append(stored, key)

addRecentMessage(to, id, message) ==
    LET key == recentMessageKey(to, id)
        slot == recentMessagesPtr + 1
        evicted == IF recentMessagesList[slot].ID # NoID
                   THEN MapDelete(recentMessagesMap, recentMessagesList[slot])
                   ELSE recentMessagesMap
    IN  /\ recentMessagesMap' = MapStore(evicted, key, message)
        /\ recentMessagesList' = [recentMessagesList EXCEPT ![slot] = key]
        /\ recentMessagesPtr' =
              IF recentMessagesPtr + 1 >= Len(recentMessagesList) THEN 0
              ELSE recentMessagesPtr + 1
        /\ stored' = Append(stored, key)

getRecentMessage(to, id) ==
    IF recentMessageKey(to, id) \in DOMAIN recentMessagesMap
    THEN recentMessagesMap[recentMessageKey(to, id)]
    ELSE Nil

RingInit(size) ==
    /\ recentMessagesList = [i \in 1..size |-> ZeroKey]
    /\ recentMessagesMap = EmptyMap
    /\ recentMessagesPtr = 0
    /\ stored = <<>>


\* Client.addRecentMessage as called by a message send: the environment's choice
\* of recipient, message id and plaintext, at most `limit` calls.
StoreRecent(tos, ids, msgs, limit) ==
    /\ Len(stored) < limit
    /\ \E to \in tos, id \in ids, message \in msgs : addRecentMessage(to, id, message)

(***************************************************************************)
(*                 OUTBOUND RETRY ENGINE  (retry.go)                       *)
(***************************************************************************)
VARIABLES
    incomingRetryRequestCounter,  \* incomingRetryKey -> int
    sessionRecreateHistory,       \* JID -> time of the last forced session recreation
    sessions,                     \* Store: the Signal addresses that have a session
    now,                          \* time.Now(), in minutes
    handled,                      \* history: incomingRetryKey -> receipts that reached the counter
    last                          \* history: what the latest handleRetryReceipt call saw and did

retryVars == <<incomingRetryRequestCounter, sessionRecreateHistory, sessions, now,
               handled, last>>

\* const recreateSessionTimeout = 1 * time.Hour, in minutes
recreateSessionTimeout == 60
\* if internalCounter >= 10 { drop }
retryDropThreshold == 10

\* Receipts delivered per (sender, message id) in the counter-cap run.
MaxReceipts == 11
\* Receipts delivered for a second message id or a second sender.
MaxOtherReceipts == 1
\* Receipts delivered by the first device in the session-policy run (the second
\* device delivers one).
MaxPolicyReceipts == 2
\* The clock is read up to MaxLate minutes past the recreation timeout.
MaxLate == 1
\* The count attribute of a retry receipt ranges over 0..MaxCount.
MaxCount == 2

Senders == {"u1.0@s", "u2.0@s"}
\* the instants (minutes) at which the clock is read: time 0 and around one
\* recreation timeout later
ClockPoints == {0} \cup {recreateSessionTimeout + k : k \in (-1)..MaxLate}

\* jid.SignalAddress()
SignalAddress(jid) == <<"signal", jid>>

incomingRetryKey(jid, messageID) == [jid |-> jid, messageID |-> messageID]

\* xsync Load of a map of ints: the zero value when the key is absent
LoadInt(m, key) == IF key \in DOMAIN m THEN m[key] ELSE 0

\* shouldRecreateSession with the hour test off by one (not strictly older)
shouldRecreateSessionLax(retryCount, jid) ==
    IF SignalAddress(jid) \notin sessions THEN TRUE
    ELSE IF retryCount < 2 THEN FALSE
    ELSE \/ jid \notin DOMAIN sessionRecreateHistory
         \/ sessionRecreateHistory[jid] + recreateSessionTimeout <= now

\* The boolean shouldRecreateSession returns.
shouldRecreateSession(retryCount, jid) ==
    IF SignalAddress(jid) \notin sessions THEN TRUE
    ELSE IF retryCount < 2 THEN FALSE
    ELSE \/ jid \notin DOMAIN sessionRecreateHistory
         \/ sessionRecreateHistory[jid] + recreateSessionTimeout < now

\* The history shouldRecreateSession leaves: both recreate branches store time.Now().
recreateHistoryAfter(retryCount, jid) ==
    IF shouldRecreateSession(retryCount, jid)
    THEN MapStore(sessionRecreateHistory, jid, now)
    ELSE sessionRecreateHistory

\* getMessageForRetry: the ring first, then the GetMessageForRetry collaborator
getMessageForRetry(chat, messageID, external) ==
    IF getRecentMessage(chat, messageID) # Nil
    THEN getRecentMessage(chat, messageID)
    ELSE external

\* the drop test with the cap one too high
retryDroppedLate(internalCounter) == internalCounter > retryDropThreshold

\* if internalCounter >= 10 { return nil }
retryDropped(internalCounter) == internalCounter >= retryDropThreshold

NoStanza == [tag |-> "none"]

\* encryptMessageForDevice: encrypting with a prekey bundle builds the session
sessionsAfterEncrypt(jid, bundle) ==
    IF bundle # "none" THEN sessions \cup {SignalAddress(jid)} ELSE sessions

\* The receipt's context: a one-to-one chat, the user's own chat (IsFromMe), a
\* group, or a group for which building the sender-key distribution fails.
Flavors == {"plain", "fromMe", "group", "groupNoSKDM"}

receiptChat(flavor) == IF flavor \in {"group", "groupNoSKDM"} THEN "g@g" ELSE "a@s"

\* the message after step "wrap per context" (lines 128-147)
wrapForRetry(flavor) ==
    IF flavor = "group" THEN "skdm"
    ELSE IF flavor = "groupNoSKDM" THEN "plain"
    ELSE IF flavor = "fromMe" THEN "dsm"
    ELSE "plain"

\* the attributes of the outbound message stanza (lines 189-206); recipient and
\* edit are copied exactly as participant is
retryStanza(sender, messageID, retryCount, flavor, participant, bundle) ==
    [tag |-> "message", to |-> sender, id |-> messageID, count |-> retryCount,
     device_fanout |-> IF receiptChat(flavor) = "g@g" THEN "absent" ELSE "false",
     participant |-> IF participant THEN "p@s" ELSE "absent",
     content |-> wrapForRetry(flavor), bundle |-> bundle]

\* The first thing that goes wrong in a call, if anything: a receipt without a
\* readable retry child, an empty own JID, or a failing collaborator.
Failures == {"malformed", "notLoggedIn", "marshal", "bundle", "fetch", "encrypt", "send"}

\* PreRetryCallback: not configured, or configured and returning true / false
CleanInputs == [flavor : Flavors, participant : BOOLEAN, callback : {"nil", "true", "false"},
                hasKeys : BOOLEAN, fail : {"none"}]

FailingInputs == [flavor : {"plain"}, participant : {FALSE}, callback : {"nil"},
                  hasKeys : BOOLEAN, fail : Failures]

RetryInputs == CleanInputs \cup FailingInputs

\* the inputs of the session-policy run: every way through session management
PolicyInputs == {in \in RetryInputs : /\ in.flavor = "plain" /\ ~in.participant
                                      /\ in.callback = "nil"
                                      /\ in.fail \in {"none", "fetch"}}

\* what `last` records of a call: its inputs, the state it started from (whether
\* a session existed, the recorded recreation time, the clock) and its effects.
\* reached: the call got to the session-management step (line 158).
Observed(outcome, sender, messageID, retryCount, in, reached, fetched, nSent, stanza) ==
    [outcome |-> outcome, sender |-> sender, messageID |-> messageID,
     count |-> retryCount, hasKeys |-> in.hasKeys, callback |-> in.callback,
     fail |-> in.fail,
     hadSession |-> SignalAddress(sender) \in sessions,
     prevKnown |-> sender \in DOMAIN sessionRecreateHistory,
     prevTime |-> LoadInt(sessionRecreateHistory, sender),
     at |-> now, reached |-> reached, fetched |-> fetched, nSent |-> nSent,
     stanza |-> stanza]

NoCall == Observed("init", "none", NoID, 0,
                   [hasKeys |-> FALSE, callback |-> "nil", fail |-> "none"],
                   FALSE, FALSE, 0, NoStanza)

\* a handleRetryReceipt that asks the PreRetryCallback only after session
\* management (receipts the callback accepts are left aside)
handleRetryReceiptVetoLate(sender, messageID, retryCount, external, in) ==
    LET retryKey == incomingRetryKey(sender, messageID)
        internalCounter == LoadInt(incomingRetryRequestCounter, retryKey) + 1
        recreate == ~in.hasKeys /\ shouldRecreateSession(retryCount, sender)
    IN  /\ UNCHANGED <<ringVars, now, sessions>>
        /\ in.callback = "false"
        /\ getMessageForRetry(receiptChat(in.flavor), messageID, external) # Nil
        /\ ~retryDropped(internalCounter)
        /\ incomingRetryRequestCounter' =
              MapStore(incomingRetryRequestCounter, retryKey, internalCounter)
        /\ handled' = MapStore(handled, retryKey, LoadInt(handled, retryKey) + 1)
        /\ sessionRecreateHistory' =
              IF in.hasKeys THEN sessionRecreateHistory
              ELSE recreateHistoryAfter(retryCount, sender)
        /\ last' = Observed("vetoed", sender, messageID, retryCount, in, TRUE, recreate,
                            0, NoStanza)

\* handleRetryReceipt(receipt, node).  `external` is what the GetMessageForRetry
\* collaborator would return; `in` are the remaining inputs and collaborator
\* outcomes.  The result is written to `last`.
handleRetryReceipt(sender, messageID, retryCount, external, in) ==
    LET msg == getMessageForRetry(receiptChat(in.flavor), messageID, external)
        retryKey == incomingRetryKey(sender, messageID)
        internalCounter == LoadInt(incomingRetryRequestCounter, retryKey) + 1
        recreate == ~in.hasKeys /\ shouldRecreateSession(retryCount, sender)
        bundle == IF in.hasKeys THEN "receipt" ELSE IF recreate THEN "fetched" ELSE "none"
        stanza == retryStanza(sender, messageID, retryCount, in.flavor, in.participant, bundle)
        Obs(outcome, reached, fetched, nSent, st) ==
            Observed(outcome, sender, messageID, retryCount, in, reached, fetched, nSent, st)
        Counted == /\ incomingRetryRequestCounter' =
                          MapStore(incomingRetryRequestCounter, retryKey, internalCounter)
                   /\ handled' = MapStore(handled, retryKey, LoadInt(handled, retryKey) + 1)
    IN  /\ UNCHANGED <<ringVars, now>>
        /\ IF in.fail = "malformed"
           THEN /\ last' = Obs("malformed", FALSE, FALSE, 0, NoStanza)
                /\ UNCHANGED <<incomingRetryRequestCounter, handled,
                               sessionRecreateHistory, sessions>>
           ELSE IF msg = Nil
           THEN /\ last' = Obs("notfound", FALSE, FALSE, 0, NoStanza)
                /\ UNCHANGED <<incomingRetryRequestCounter, handled,
                               sessionRecreateHistory, sessions>>
           ELSE /\ Counted
                /\ IF retryDropped(internalCounter)
                   THEN /\ last' = Obs("dropped", FALSE, FALSE, 0, NoStanza)
                        /\ UNCHANGED <<sessionRecreateHistory, sessions>>
                   ELSE IF in.fail = "notLoggedIn"
                   THEN /\ last' = Obs("notloggedin", FALSE, FALSE, 0, NoStanza)
                        /\ UNCHANGED <<sessionRecreateHistory, sessions>>
                   ELSE IF in.callback = "false"
                   THEN /\ last' = Obs("vetoed", FALSE, FALSE, 0, NoStanza)
                        /\ UNCHANGED <<sessionRecreateHistory, sessions>>
                   ELSE IF in.fail = "marshal"
                   THEN /\ last' = Obs("error", FALSE, FALSE, 0, NoStanza)
                        /\ UNCHANGED <<sessionRecreateHistory, sessions>>
                   ELSE IF in.hasKeys /\ in.fail = "bundle"
                   THEN /\ last' = Obs("error", TRUE, FALSE, 0, NoStanza)
                        /\ UNCHANGED <<sessionRecreateHistory, sessions>>
                   ELSE /\ sessionRecreateHistory' =
                              IF in.hasKeys THEN sessionRecreateHistory
                              ELSE recreateHistoryAfter(retryCount, sender)
                        /\ IF recreate /\ in.fail = "fetch"
                           THEN /\ last' = Obs("error", TRUE, TRUE, 0, NoStanza)
                                /\ UNCHANGED sessions
                           ELSE IF in.fail = "encrypt"
                           THEN /\ last' = Obs("error", TRUE, recreate, 0, NoStanza)
                                /\ UNCHANGED sessions
                           ELSE /\ sessions' = sessionsAfterEncrypt(sender, bundle)
                                /\ IF in.fail = "send"
                                   THEN last' = Obs("senderror", TRUE, recreate, 0, NoStanza)
                                   ELSE last' = Obs("sent", TRUE, recreate, 1, stanza)

\* A receipt of type retry arrives and the receipt handler runs handleRetryReceipt.
\* limit[sender][messageID] bounds the receipts of that pair that reach the counter.
RetryReceiptArrives(senders, ids, counts, externals, inputs, limit) ==
    \E sender \in senders, messageID \in ids, retryCount \in counts,
       external \in externals, in \in inputs :
        /\ LoadInt(handled, incomingRetryKey(sender, messageID)) < limit[sender][messageID]
        /\ handleRetryReceipt(sender, messageID, retryCount, external, in)

\* the Store loses a Signal session (identity change, session deletion)
SessionLost ==
    /\ \E addr \in sessions : sessions' = sessions \ {addr}
    /\ UNCHANGED <<ringVars, incomingRetryRequestCounter, sessionRecreateHistory, now,
                   handled, last>>

\* time passes
Tick ==
    /\ \E t \in ClockPoints : t > now /\ now' = t
    /\ UNCHANGED <<ringVars, incomingRetryRequestCounter, sessionRecreateHistory,
                   sessions, handled, last>>

RetryInit ==
    /\ incomingRetryRequestCounter = EmptyMap
    /\ sessionRecreateHistory = EmptyMap
    /\ sessions = {}
    /\ now = 0
    /\ handled = EmptyMap
    /\ last = NoCall

(***************************************************************************)
(*                  INBOUND RETRY ENGINE  (retry.go)                       *)
(***************************************************************************)
VARIABLES
    messageRetries,           \* message id -> retry count
    pendingPhoneRerequests,   \* message id -> the task whose context.CancelFunc is stored
    tasks,                    \* the delayedRequestMessageFromPhone goroutines, in spawn order
    AutomaticMessageRerequestFromPhone,  \* the client option
    receipts,                 \* history: message id -> the counts of the retry receipts sent
    lastReceipt,              \* history: the latest retry receipt handed to sendNode
    calls,                    \* history: message id -> number of sendRetryReceipt calls
    fancyCalls,               \* history: ids with a call that carried a count or lost its receipt
    requested,                \* history: message id -> unavailable-message requests sent
    cancelledInTime           \* history: ids cancelled while their task's delay was running

inboundVars == <<messageRetries, pendingPhoneRerequests, tasks,
                 AutomaticMessageRerequestFromPhone, receipts, lastReceipt, calls,
                 fancyCalls, requested, cancelledInTime>>

\* if retryCount >= 5 { return }
retryReceiptCeiling == 5

\* sendRetryReceipt calls for the first message id in the receipt-ceiling run.
MaxCalls == 6
\* sendRetryReceipt calls per message id in the phone-rerequest run.
MaxPhoneCalls == 2

InboundIDs == 1..2

\* the ceiling test off by one
retryCeilingReachedLate(retryCount) == retryCount > retryReceiptCeiling

\* if retryCount >= 5 { stop sending retry receipts }
retryCeilingReached(retryCount) == retryCount >= retryReceiptCeiling

\* lines 275-282: the count after this call; the count carried by the message's
\* enc child is adopted when the local counter was 0
nextRetryCount(id, retryCountInMsg) ==
    IF LoadInt(messageRetries, id) + 1 = 1 /\ retryCountInMsg > 0
    THEN retryCountInMsg + 1
    ELSE LoadInt(messageRetries, id) + 1

\* a freshly spawned delayedRequestMessageFromPhone goroutine
NewTask(id) == [id |-> id, pc |-> "start", cancelled |-> FALSE]

\* sendRetryReceipt(node, info, forceIncludeIdentity).  retryCountInMsg is 0 when
\* the message has no single enc child with a count attribute.  fail names the
\* collaborator that fails, if any: GenOnePreKey, proto.Marshal or sendNode.
sendRetryReceipt(id, retryCountInMsg, forceIncludeIdentity, fail) ==
    LET retryCount == nextRetryCount(id, retryCountInMsg)
        includeKeys == retryCount > 1 \/ forceIncludeIdentity
        receipt == [id |-> id, count |-> retryCount,
                    keys |-> includeKeys /\ fail # "prekey"]
    IN  /\ messageRetries' = MapStore(messageRetries, id, retryCount)
        /\ calls' = MapStore(calls, id, LoadInt(calls, id) + 1)
        /\ fancyCalls' = IF \/ retryCountInMsg > 0
                            \/ /\ ~retryCeilingReached(retryCount)
                               /\ \/ fail = "send"
                                  \/ includeKeys /\ fail = "marshal"
                         THEN fancyCalls \cup {id} ELSE fancyCalls
        /\ IF retryCeilingReached(retryCount)
           THEN UNCHANGED <<tasks, receipts, lastReceipt>>
           ELSE /\ tasks' = IF retryCount = 1 THEN Append(tasks, NewTask(id)) ELSE tasks
                /\ IF includeKeys /\ fail = "marshal"
                   THEN UNCHANGED <<receipts, lastReceipt>>
                   ELSE /\ lastReceipt' = receipt
                        /\ receipts' =
                              IF fail = "send" THEN receipts
                              ELSE MapStore(receipts, id,
                                            Append(IF id \in DOMAIN receipts
                                                   THEN receipts[id] ELSE <<>>,
                                                   retryCount))
        /\ UNCHANGED <<pendingPhoneRerequests, AutomaticMessageRerequestFromPhone,
                       requested, cancelledInTime>>

\* a message fails to decrypt and the message handler calls sendRetryReceipt;
\* limit[id] bounds the calls per message id
DecryptFails(counts, fails, limit) ==
    \E id \in InboundIDs, retryCountInMsg \in counts, force \in BOOLEAN, fail \in fails :
        /\ LoadInt(calls, id) < limit[id]
        /\ sendRetryReceipt(id, retryCountInMsg, force, fail)

\* Overlapping delayedRequestMessageFromPhone calls a run may start.
MaxRerequests == 2

\* go cli.delayedRequestMessageFromPhone(info): sendRetryReceipt calls for one
\* message id that overlap all read retry count 0 before any of them stores 1,
\* and each of them spawns the task
spawnDelayedRequest(id) ==
    /\ Len(tasks) < MaxRerequests
    /\ tasks' = Append(tasks, NewTask(id))
    /\ UNCHANGED <<messageRetries, pendingPhoneRerequests,
                   AutomaticMessageRerequestFromPhone, receipts, lastReceipt, calls,
                   fancyCalls, requested, cancelledInTime>>

\* delayedRequestMessageFromPhone, lines 234-240: the option and the
\* already-requesting test
TaskBegin(t) ==
    /\ tasks[t].pc = "start"
    /\ tasks' = [tasks EXCEPT ![t].pc =
                    IF ~AutomaticMessageRerequestFromPhone THEN "done"
                    ELSE IF tasks[t].id \in DOMAIN pendingPhoneRerequests THEN "done"
                    ELSE "store"]
    /\ UNCHANGED <<messageRetries, pendingPhoneRerequests,
                   AutomaticMessageRerequestFromPhone, receipts, lastReceipt, calls, fancyCalls,
                   requested, cancelledInTime>>

\* lines 241-243: the cancel function is stored under the message id
TaskStore(t) ==
    /\ tasks[t].pc = "store"
    /\ pendingPhoneRerequests' = MapStore(pendingPhoneRerequests, tasks[t].id, t)
    /\ tasks' = [tasks EXCEPT ![t].pc = "wait"]
    /\ UNCHANGED <<messageRetries, AutomaticMessageRerequestFromPhone, receipts, lastReceipt,
                   calls, fancyCalls, requested, cancelledInTime>>

\* lines 248-249: RequestFromPhoneDelay elapses before any cancellation
TaskTimer(t) ==
    /\ tasks[t].pc = "wait"
    /\ ~tasks[t].cancelled
    /\ tasks' = [tasks EXCEPT ![t].pc = "send"]
    /\ UNCHANGED <<messageRetries, pendingPhoneRerequests,
                   AutomaticMessageRerequestFromPhone, receipts, lastReceipt, calls, fancyCalls,
                   requested, cancelledInTime>>

\* lines 250-252 and the deferred Delete: the context was cancelled during the delay
TaskCancelled(t) ==
    /\ tasks[t].pc = "wait"
    /\ tasks[t].cancelled
    /\ tasks' = [tasks EXCEPT ![t].pc = "done"]
    /\ pendingPhoneRerequests' = MapDelete(pendingPhoneRerequests, tasks[t].id)
    /\ UNCHANGED <<messageRetries, AutomaticMessageRerequestFromPhone, receipts, lastReceipt,
                   calls, fancyCalls, requested, cancelledInTime>>

\* lines 254-264 and the deferred Delete: SendMessage of the unavailable-message
\* request, which may fail
TaskSend(t) ==
    /\ tasks[t].pc = "send"
    /\ \E ok \in BOOLEAN :
          requested' = IF ok THEN MapStore(requested, tasks[t].id,
                                           LoadInt(requested, tasks[t].id) + 1)
                       ELSE requested
    /\ tasks' = [tasks EXCEPT ![t].pc = "done", ![t].cancelled = TRUE]
    /\ pendingPhoneRerequests' = MapDelete(pendingPhoneRerequests, tasks[t].id)
    /\ UNCHANGED <<messageRetries, AutomaticMessageRerequestFromPhone, receipts, lastReceipt,
                   calls, fancyCalls, cancelledInTime>>

TaskStep == \E t \in DOMAIN tasks :
    TaskBegin(t) \/ TaskStore(t) \/ TaskTimer(t) \/ TaskCancelled(t) \/ TaskSend(t)

\* the ids whose scheduled task has not yet seen its delay elapse
DelayRunning == {tasks[t].id : t \in {u \in DOMAIN tasks : tasks[u].pc \in {"start", "store", "wait"}}}

\* cancelDelayedRequestFromPhone(msgID)
cancelDelayedRequestFromPhone(msgID) ==
    /\ IF AutomaticMessageRerequestFromPhone /\ msgID \in DOMAIN pendingPhoneRerequests
       THEN tasks' = [tasks EXCEPT ![pendingPhoneRerequests[msgID]].cancelled = TRUE]
       ELSE UNCHANGED tasks
    /\ cancelledInTime' = IF AutomaticMessageRerequestFromPhone /\ msgID \in DelayRunning
                          THEN cancelledInTime \cup {msgID} ELSE cancelledInTime
    /\ UNCHANGED <<messageRetries, pendingPhoneRerequests,
                   AutomaticMessageRerequestFromPhone, receipts, lastReceipt, calls, fancyCalls,
                   requested>>

\* the message is decrypted after all and the message handler cancels the request
DecryptSucceeds == \E id \in InboundIDs : cancelDelayedRequestFromPhone(id)

InboundInit(options) ==
    /\ messageRetries = EmptyMap
    /\ pendingPhoneRerequests = EmptyMap
    /\ tasks = <<>>
    /\ AutomaticMessageRerequestFromPhone \in options
    /\ receipts = EmptyMap
    /\ lastReceipt = [id |-> NoID, count |-> 0, keys |-> FALSE]
    /\ calls = EmptyMap
    /\ fancyCalls = {}
    /\ requested = EmptyMap
    /\ cancelledInTime = {}

(***************************************************************************)
(* The connection supervisor, the stanza router, the response waiters and  *)
(* the dispatch queue (client.go).                                         *)
(***************************************************************************)
VARIABLES
    socket,                 \* cli.socket: NoSocket (nil) or the number of a socket
    socketsMade,            \* noise sockets created so far by successful handshakes
    connected,              \* the sockets for which IsConnected() holds
    ctxDone,                \* the sockets whose Context() is cancelled
    expectedDisconnectVal,  \* the atomic flag behind expectDisconnect()
    connecting,             \* Connect() holds socketLock and is opening the connection
    disconnecting,          \* a Disconnect() call is past the nil test, waiting for socketLock
    callbacks,              \* socket -> its onDisconnect call: [pc, remote]
    responseWaiters,        \* request id -> waiter (a channel, here its number)
    got,                    \* waiter -> the nodes its channel has received, in order
    handlerQueue,           \* cli.handlerQueue, oldest first
    blockedPushes,          \* nodes held by detached goroutines blocked on the full queue
    consumers,              \* socket -> the handlerQueueLoop started for it
    handlers,               \* the handler goroutines spawned by the consumers
    frameLog,               \* history: every frame handled, with the route it took
    invoked,                \* history: the nodes on which a tag handler was invoked, in order
    endedWaiters,           \* history: the waiters that were pending at a disconnect
    freshWaiters,           \* history: the waiters registered since the registry was last cleared
    disconnectedEvents,     \* history: Disconnected events dispatched
    autoReconnects          \* history: autoReconnect goroutines spawned

routerVars == <<socket, socketsMade, connected, ctxDone, expectedDisconnectVal,
                connecting, disconnecting, callbacks, responseWaiters, got, handlerQueue,
                blockedPushes, consumers, handlers, frameLog, invoked, endedWaiters,
                freshWaiters, disconnectedEvents, autoReconnects>>

\* const handlerQueueSize = 2048
handlerQueueSize == 2048

\* The capacity of the scaled-down dispatch queue.
SmallQueueSize == 1
\* Sockets a run may create.
MaxSockets == 2
\* Frames a run of the router or of the dispatch queue may receive.
MaxFrames == 2
\* Acks a run of the connection supervisor may receive.
MaxAcks == 1
\* Response waiters a run may register.
MaxWaiters == 2
\* The largest request id.
MaxReqID == 1
NoSocket == 0

\* the tags NewClient registers a node handler for
nodeHandlers == {"message", "receipt", "call", "chatstate", "presence", "notification",
                 "success", "failure", "stream:error", "iq", "ib"}

\* the tags of the frames a run receives
NodeTags == {"message", "ack", "error", "xmlstreamend"}

\* a decoded node: its tag, its id attribute (NoID when absent), and the number
\* of the frame that carried it
Node(tag, id, n) == [tag |-> tag, id |-> id, n |-> n]

xmlStreamEndNode == Node("xmlstreamend", NoID, 0)

\* waitResponse(reqID): a channel with room for one node is registered under the id
waitResponse(reqID) ==
    LET w == Len(got) + 1
    IN  /\ responseWaiters' = MapStore(responseWaiters, reqID, w)
        /\ got' = Append(got, <<>>)
        /\ freshWaiters' = freshWaiters \cup {w}

\* receiveResponse(node) reports whether the node's id names a registered waiter
responseHandled(node) == node.id # NoID /\ node.id \in DOMAIN responseWaiters

\* receiveResponse(node) when it reports true: the waiter is taken out of the
\* registry and the node is sent on its channel
receiveResponse(node) ==
    /\ got' = [got EXCEPT ![responseWaiters[node.id]] = Append(@, node)]
    /\ responseWaiters' = MapDelete(responseWaiters, node.id)

\* clearResponseWaiters(node): the node is sent to every registered waiter and
\* the registry is emptied
clearResponseWaiters(node) ==
    /\ got' = [w \in DOMAIN got |->
                 IF w \in Range(responseWaiters) THEN Append(got[w], node) ELSE got[w]]
    /\ responseWaiters' = EmptyMap

\* a handlerQueueLoop about to evaluate its outer select
NewConsumer == [pc |-> "select", h |-> 0]

\* the consumers once the context of socket ns is cancelled: a consumer parked
\* in its outer select on the empty queue is woken by ctx.Done()
consumersAfterCancel(ns) ==
    [s \in DOMAIN consumers |->
        IF s = ns /\ consumers[s].pc = "parked" /\ handlerQueue = <<>>
        THEN [consumers[s] EXCEPT !.pc = "woken"]
        ELSE consumers[s]]

\* unlockedDisconnect without the clearing of the waiters
unlockedDisconnectNoClear ==
    IF socket # NoSocket
    THEN /\ connected' = connected \ {socket}
         /\ ctxDone' = ctxDone \cup {socket}
         /\ consumers' = consumersAfterCancel(socket)
         /\ socket' = NoSocket
         /\ endedWaiters' = endedWaiters \cup Range(responseWaiters)
         /\ freshWaiters' = {}
         /\ UNCHANGED <<responseWaiters, got>>
    ELSE UNCHANGED <<socket, connected, ctxDone, consumers, responseWaiters, got,
                     endedWaiters, freshWaiters>>

\* unlockedDisconnect(): socket.Stop(true), the handle is dropped and the waiters
\* are cleared; nothing when there is no socket
unlockedDisconnect ==
    IF socket # NoSocket
    THEN /\ connected' = connected \ {socket}
         /\ ctxDone' = ctxDone \cup {socket}
         /\ consumers' = consumersAfterCancel(socket)
         /\ socket' = NoSocket
         /\ endedWaiters' = endedWaiters \cup Range(responseWaiters)
         /\ freshWaiters' = {}
         /\ clearResponseWaiters(xmlStreamEndNode)
    ELSE UNCHANGED <<socket, connected, ctxDone, consumers, responseWaiters, got,
                     endedWaiters, freshWaiters>>

\* a Connect() that resets the expected-disconnect flag before it tests the socket
ConnectBeginResetFirst ==
    /\ ~connecting
    /\ expectedDisconnectVal' = FALSE
    /\ IF socket # NoSocket /\ socket \in connected
       THEN UNCHANGED <<socket, socketsMade, connected, ctxDone, connecting,
                        disconnecting, callbacks, responseWaiters, got, handlerQueue,
                        blockedPushes, consumers, handlers, frameLog, invoked,
                        endedWaiters, freshWaiters, disconnectedEvents, autoReconnects>>
       ELSE /\ unlockedDisconnect
            /\ connecting' = TRUE
            /\ UNCHANGED <<socketsMade, disconnecting, callbacks, handlerQueue,
                           blockedPushes, handlers, frameLog, invoked,
                           disconnectedEvents, autoReconnects>>

\* Connect() up to the opening of the frame socket, under socketLock: a live
\* socket gives ErrAlreadyConnected, a dead one is disconnected first
ConnectBegin ==
    /\ ~connecting
    /\ IF socket # NoSocket /\ socket \in connected
       THEN UNCHANGED routerVars
       ELSE /\ unlockedDisconnect
            /\ expectedDisconnectVal' = FALSE
            /\ connecting' = TRUE
            /\ UNCHANGED <<socketsMade, disconnecting, callbacks, handlerQueue,
                           blockedPushes, handlers, frameLog, invoked,
                           disconnectedEvents, autoReconnects>>

\* the rest of Connect().  result is what the network does: the frame socket
\* fails to connect, the noise handshake fails, or both succeed and doHandshake
\* sets cli.socket; then the consumer is started on the socket's context
ConnectEnd(result) ==
    /\ connecting
    /\ connecting' = FALSE
    /\ IF result = "ok"
       THEN /\ socketsMade < MaxSockets
            /\ socketsMade' = socketsMade + 1
            /\ socket' = socketsMade + 1
            /\ connected' = connected \cup {socketsMade + 1}
            /\ consumers' = MapStore(consumers, socketsMade + 1, NewConsumer)
       ELSE UNCHANGED <<socketsMade, socket, connected, consumers>>
    /\ UNCHANGED <<ctxDone, expectedDisconnectVal, disconnecting, callbacks,
                   responseWaiters, got, handlerQueue, blockedPushes, handlers, frameLog,
                   invoked, endedWaiters, freshWaiters, disconnectedEvents,
                   autoReconnects>>

\* Disconnect(), the test made before the lock is taken: if cli.socket == nil { return }
DisconnectBegin ==
    /\ socket # NoSocket
    /\ ~disconnecting
    /\ disconnecting' = TRUE
    /\ UNCHANGED <<socket, socketsMade, connected, ctxDone, expectedDisconnectVal,
                   connecting, callbacks, responseWaiters, got, handlerQueue,
                   blockedPushes, consumers, handlers, frameLog, invoked, endedWaiters,
                   freshWaiters, disconnectedEvents, autoReconnects>>

\* a Disconnect() that marks the disconnection as expected
DisconnectLockedExpecting ==
    /\ disconnecting
    /\ ~connecting
    /\ disconnecting' = FALSE
    /\ unlockedDisconnect
    /\ expectedDisconnectVal' = TRUE
    /\ UNCHANGED <<socketsMade, connecting, callbacks, handlerQueue, blockedPushes,
                   handlers, frameLog, invoked, disconnectedEvents, autoReconnects>>

\* a Disconnect() that reports the disconnection it made itself
DisconnectLockedEmitting ==
    /\ disconnecting
    /\ ~connecting
    /\ disconnecting' = FALSE
    /\ unlockedDisconnect
    /\ disconnectedEvents' = disconnectedEvents + 1
    /\ autoReconnects' = autoReconnects + 1
    /\ UNCHANGED <<socketsMade, expectedDisconnectVal, connecting, callbacks,
                   handlerQueue, blockedPushes, handlers, frameLog, invoked>>

\* Disconnect(), under socketLock: unlockedDisconnect()
DisconnectLocked ==
    /\ disconnecting
    /\ ~connecting
    /\ disconnecting' = FALSE
    /\ unlockedDisconnect
    /\ UNCHANGED <<socketsMade, expectedDisconnectVal, connecting, callbacks,
                   handlerQueue, blockedPushes, handlers, frameLog, invoked,
                   disconnectedEvents, autoReconnects>>

\* expectDisconnect(), called by the handlers of connection events
expectDisconnect ==
    /\ socket # NoSocket
    /\ expectedDisconnectVal' = TRUE
    /\ UNCHANGED <<socket, socketsMade, connected, ctxDone, connecting, disconnecting,
                   callbacks, responseWaiters, got, handlerQueue, blockedPushes,
                   consumers, handlers, frameLog, invoked, endedWaiters, freshWaiters,
                   disconnectedEvents, autoReconnects>>

\* the socket closes (the server or the network when remote, a local error
\* otherwise) and calls onDisconnect(ns, remote), which begins with ns.Stop(false)
SocketCloses(ns, remote) ==
    /\ ns \in connected
    /\ ns \notin DOMAIN callbacks
    /\ connected' = connected \ {ns}
    /\ ctxDone' = ctxDone \cup {ns}
    /\ callbacks' = MapStore(callbacks, ns, [pc |-> "lock", remote |-> remote])
    /\ consumers' = consumersAfterCancel(ns)
    /\ UNCHANGED <<socket, socketsMade, expectedDisconnectVal, connecting, disconnecting,
                   responseWaiters, got, handlerQueue, blockedPushes, handlers, frameLog,
                   invoked, endedWaiters, freshWaiters, disconnectedEvents,
                   autoReconnects>>

\* an onDisconnect(ns, remote) that does not look at the expected-disconnect flag
onDisconnectIgnoringExpected(ns) ==
    /\ ns \in DOMAIN callbacks
    /\ callbacks[ns].pc = "lock"
    /\ ~connecting
    /\ callbacks' = [callbacks EXCEPT ![ns] = [pc |-> "done", remote |-> FALSE]]
    /\ IF socket = ns
       THEN /\ socket' = NoSocket
            /\ endedWaiters' = endedWaiters \cup Range(responseWaiters)
            /\ freshWaiters' = {}
            /\ clearResponseWaiters(xmlStreamEndNode)
            /\ IF callbacks[ns].remote
               THEN /\ disconnectedEvents' = disconnectedEvents + 1
                    /\ autoReconnects' = autoReconnects + 1
               ELSE UNCHANGED <<disconnectedEvents, autoReconnects>>
       ELSE UNCHANGED <<socket, responseWaiters, got, endedWaiters, freshWaiters,
                        disconnectedEvents, autoReconnects>>
    /\ UNCHANGED <<socketsMade, connected, ctxDone, expectedDisconnectVal, connecting,
                   disconnecting, handlerQueue, blockedPushes, consumers, handlers,
                   frameLog, invoked>>

\* onDisconnect(ns, remote) under socketLock
onDisconnect(ns) ==
    /\ ns \in DOMAIN callbacks
    /\ callbacks[ns].pc = "lock"
    /\ ~connecting
    /\ callbacks' = [callbacks EXCEPT ![ns] = [pc |-> "done", remote |-> FALSE]]
    /\ IF socket = ns
       THEN /\ socket' = NoSocket
            /\ endedWaiters' = endedWaiters \cup Range(responseWaiters)
            /\ freshWaiters' = {}
            /\ clearResponseWaiters(xmlStreamEndNode)
            /\ IF ~expectedDisconnectVal /\ callbacks[ns].remote
               THEN /\ disconnectedEvents' = disconnectedEvents + 1
                    /\ autoReconnects' = autoReconnects + 1
               ELSE UNCHANGED <<disconnectedEvents, autoReconnects>>
       ELSE UNCHANGED <<socket, responseWaiters, got, endedWaiters, freshWaiters,
                        disconnectedEvents, autoReconnects>>
    /\ UNCHANGED <<socketsMade, connected, ctxDone, expectedDisconnectVal, connecting,
                   disconnecting, handlerQueue, blockedPushes, consumers, handlers,
                   frameLog, invoked>>

\* a request registers a waiter for its id
RegisterWaiter ==
    \E reqID \in 1..MaxReqID :
        /\ Len(got) < MaxWaiters
        /\ reqID \notin DOMAIN responseWaiters
        /\ waitResponse(reqID)
        /\ UNCHANGED <<socket, socketsMade, connected, ctxDone, expectedDisconnectVal,
                       connecting, disconnecting, callbacks, handlerQueue, blockedPushes,
                       consumers, handlers, frameLog, invoked, endedWaiters,
                       disconnectedEvents, autoReconnects>>

\* the route handleFrame takes for a node
routeOf(node) ==
    IF node.tag = "xmlstreamend" THEN "streamend"
    ELSE IF responseHandled(node) THEN "waiter"
    ELSE IF node.tag \in nodeHandlers
         THEN (IF Len(handlerQueue) < SmallQueueSize THEN "queued" ELSE "overflow")
    ELSE IF node.tag # "ack" THEN "unhandled"
    ELSE "ack"

\* the routing that gives up on a node when the queue is full
handleFrameDropsOverflow(node) ==
    /\ frameLog' = Append(frameLog, [node |-> node, route |-> routeOf(node),
                                    waiter |-> IF responseHandled(node)
                                               THEN responseWaiters[node.id] ELSE 0,
                                    registered |-> Len(got)])
    /\ IF routeOf(node) = "waiter"
       THEN receiveResponse(node)
       ELSE UNCHANGED <<responseWaiters, got>>
    /\ handlerQueue' = IF routeOf(node) = "queued"
                       THEN Append(handlerQueue, node) ELSE handlerQueue
    /\ blockedPushes' = blockedPushes

\* the routing that enqueues a node even though a waiter took it
handleFrameAlsoQueues(node) ==
    /\ frameLog' = Append(frameLog, [node |-> node, route |-> routeOf(node),
                                    waiter |-> IF responseHandled(node)
                                               THEN responseWaiters[node.id] ELSE 0,
                                    registered |-> Len(got)])
    /\ IF routeOf(node) = "waiter"
       THEN receiveResponse(node)
       ELSE UNCHANGED <<responseWaiters, got>>
    /\ handlerQueue' = IF routeOf(node) \in {"queued", "waiter"}
                       THEN Append(handlerQueue, node) ELSE handlerQueue
    /\ blockedPushes' = IF routeOf(node) = "overflow"
                        THEN blockedPushes \cup {node} ELSE blockedPushes

\* handleFrame(data) for a frame that decodes to node
handleFrame(node) ==
    /\ frameLog' = Append(frameLog, [node |-> node, route |-> routeOf(node),
                                    waiter |-> IF responseHandled(node)
                                               THEN responseWaiters[node.id] ELSE 0,
                                    registered |-> Len(got)])
    /\ IF routeOf(node) = "waiter"
       THEN receiveResponse(node)
       ELSE UNCHANGED <<responseWaiters, got>>
    /\ handlerQueue' = IF routeOf(node) = "queued"
                       THEN Append(handlerQueue, node) ELSE handlerQueue
    /\ blockedPushes' = IF routeOf(node) = "overflow"
                        THEN blockedPushes \cup {node} ELSE blockedPushes

\* the connected socket delivers a frame that decodes to a node
FrameArrives(tags, ids, limit) ==
    \E tag \in tags, id \in ids :
        /\ connected # {}
        /\ Len(frameLog) < limit
        /\ handleFrame(Node(tag, id, Len(frameLog) + 1))
        /\ UNCHANGED <<socket, socketsMade, connected, ctxDone, expectedDisconnectVal,
                       connecting, disconnecting, callbacks, consumers, handlers, invoked,
                       endedWaiters, freshWaiters, disconnectedEvents, autoReconnects>>

\* go func() { cli.handlerQueue <- node }(): a blocked push gets its turn
BlockedPush ==
    \E node \in blockedPushes :
        /\ Len(handlerQueue) < SmallQueueSize
        /\ handlerQueue' = Append(handlerQueue, node)
        /\ blockedPushes' = blockedPushes \ {node}
        /\ UNCHANGED <<socket, socketsMade, connected, ctxDone, expectedDisconnectVal,
                       connecting, disconnecting, callbacks, responseWaiters, got,
                       consumers, handlers, frameLog, invoked, endedWaiters, freshWaiters,
                       disconnectedEvents, autoReconnects>>

\* handlerQueueLoop, outer select, case node := <-cli.handlerQueue (chosen also
\* when ctx.Done() is ready as well): the handler goroutine is spawned and the
\* consumer waits for it or for the watchdog
ConsumerTakes(s) ==
    /\ consumers[s].pc \in {"select", "parked"}
    /\ handlerQueue # <<>>
    /\ handlerQueue' = Tail(handlerQueue)
    /\ handlers' = Append(handlers, [node |-> Head(handlerQueue), pc |-> "spawned"])
    /\ consumers' = [consumers EXCEPT ![s] = [pc |-> "wait", h |-> Len(handlers) + 1]]
    /\ UNCHANGED <<socket, socketsMade, connected, ctxDone, expectedDisconnectVal,
                   connecting, disconnecting, callbacks, responseWaiters, got,
                   blockedPushes, frameLog, invoked, endedWaiters, freshWaiters,
                   disconnectedEvents, autoReconnects>>

\* handlerQueueLoop, outer select with neither case ready: the consumer parks
ConsumerParks(s) ==
    /\ consumers[s].pc = "select"
    /\ handlerQueue = <<>>
    /\ s \notin ctxDone
    /\ consumers' = [consumers EXCEPT ![s].pc = "parked"]
    /\ UNCHANGED <<socket, socketsMade, connected, ctxDone, expectedDisconnectVal,
                   connecting, disconnecting, callbacks, responseWaiters, got,
                   handlerQueue, blockedPushes, handlers, frameLog, invoked,
                   endedWaiters, freshWaiters, disconnectedEvents, autoReconnects>>

\* handlerQueueLoop, outer select, case <-ctx.Done(): return
ConsumerExits(s) ==
    /\ \/ consumers[s].pc = "select" /\ s \in ctxDone
       \/ consumers[s].pc = "woken"
    /\ consumers' = [consumers EXCEPT ![s].pc = "exited"]
    /\ UNCHANGED <<socket, socketsMade, connected, ctxDone, expectedDisconnectVal,
                   connecting, disconnecting, callbacks, responseWaiters, got,
                   handlerQueue, blockedPushes, handlers, frameLog, invoked,
                   endedWaiters, freshWaiters, disconnectedEvents, autoReconnects>>

\* the handler goroutine looks the handler up by tag and calls it
HandlerStarts(h) ==
    /\ handlers[h].pc = "spawned"
    /\ handlers' = [handlers EXCEPT ![h].pc = "running"]
    /\ invoked' = IF handlers[h].node.tag \in nodeHandlers
                  THEN Append(invoked, handlers[h].node) ELSE invoked
    /\ UNCHANGED <<socket, socketsMade, connected, ctxDone, expectedDisconnectVal,
                   connecting, disconnecting, callbacks, responseWaiters, got,
                   handlerQueue, blockedPushes, consumers, frameLog, endedWaiters,
                   freshWaiters, disconnectedEvents, autoReconnects>>

\* the handler returns and the goroutine signals doneChan
HandlerReturns(h) ==
    /\ handlers[h].pc = "running"
    /\ handlers' = [handlers EXCEPT ![h].pc = "done"]
    /\ UNCHANGED <<socket, socketsMade, connected, ctxDone, expectedDisconnectVal,
                   connecting, disconnecting, callbacks, responseWaiters, got,
                   handlerQueue, blockedPushes, consumers, frameLog, invoked,
                   endedWaiters, freshWaiters, disconnectedEvents, autoReconnects>>

\* handlerQueueLoop, inner select: doneChan, or the five-minute watchdog while
\* the handler is still running
ConsumerResumes(s) ==
    /\ consumers[s].pc = "wait"
    /\ handlers[consumers[s].h].pc \in {"running", "done"}
    /\ consumers' = [consumers EXCEPT ![s] = NewConsumer]
    /\ UNCHANGED <<socket, socketsMade, connected, ctxDone, expectedDisconnectVal,
                   connecting, disconnecting, callbacks, responseWaiters, got,
                   handlerQueue, blockedPushes, handlers, frameLog, invoked,
                   endedWaiters, freshWaiters, disconnectedEvents, autoReconnects>>

ConsumerStep == \E s \in DOMAIN consumers :
    ConsumerParks(s) \/ ConsumerTakes(s) \/ ConsumerExits(s) \/ ConsumerResumes(s)

HandlerStep == \E h \in DOMAIN handlers : HandlerStarts(h) \/ HandlerReturns(h)

RouterInit ==
    /\ socket = NoSocket
    /\ socketsMade = 0
    /\ connected = {}
    /\ ctxDone = {}
    /\ expectedDisconnectVal = FALSE
    /\ connecting = FALSE
    /\ disconnecting = FALSE
    /\ callbacks = EmptyMap
    /\ responseWaiters = EmptyMap
    /\ got = <<>>
    /\ handlerQueue = <<>>
    /\ blockedPushes = {}
    /\ consumers = EmptyMap
    /\ handlers = <<>>
    /\ frameLog = <<>>
    /\ invoked = <<>>
    /\ endedWaiters = {}
    /\ freshWaiters = {}
    /\ disconnectedEvents = 0
    /\ autoReconnects = 0

(***************************************************************************)
(* AUTO-RECONNECT: client.go, autoReconnect(), the task onDisconnect spawns *)
(* after an unexpected remote disconnection                                *)
(***************************************************************************)
VARIABLES
    AutoReconnectErrors,  \* cli.AutoReconnectErrors
    EnableAutoReconnect,  \* cli.EnableAutoReconnect
    storeHasJID,          \* cli.Store.JID != nil
    AutoReconnectHook,    \* "nil" or "set": cli.AutoReconnectHook
    reconnectTasks,       \* the autoReconnect tasks spawned so far, in order
    overlapped            \* history: a task entered the loop while another was in it

reconnectVars == <<AutoReconnectErrors, EnableAutoReconnect, storeHasJID,
                   AutoReconnectHook, reconnectTasks, overlapped>>

\* connection attempts the tasks make together before the model stops
\* following them
MaxAttempts == 2

\* a task at the top of autoReconnect(): start is the value of the error count
\* when it entered the loop, sleeps the delays it has slept, in order
NewReconnectTask == [pc |-> "start", start |-> 0, delay |-> 0, sleeps |-> <<>>]

InLoop(task) == task.pc \in {"delay", "sleep", "connect", "handshake"}

\* a delay taken after the increment instead of before it
autoReconnectDelayAfterIncrement(errors) == (errors + 1) * 2

\* autoReconnectDelay := time.Duration(cli.AutoReconnectErrors) * 2 * time.Second
autoReconnectDelay(errors) == errors * 2

\* go cli.autoReconnect(), for each task onDisconnect has asked for
spawnAutoReconnect ==
    reconnectTasks' = IF autoReconnects' > autoReconnects
                      THEN Append(reconnectTasks, NewReconnectTask)
                      ELSE reconnectTasks

\* if !cli.EnableAutoReconnect || cli.Store.JID == nil { return }
ReconnectStart(t) ==
    /\ reconnectTasks[t].pc = "start"
    /\ IF ~EnableAutoReconnect \/ ~storeHasJID
       THEN /\ reconnectTasks' = [reconnectTasks EXCEPT ![t].pc = "done"]
            /\ UNCHANGED overlapped
       ELSE /\ reconnectTasks' = [reconnectTasks EXCEPT ![t].pc = "delay",
                                                       ![t].start = AutoReconnectErrors]
            /\ overlapped' = (overlapped \/ \E u \in DOMAIN reconnectTasks :
                                                InLoop(reconnectTasks[u]))
    /\ UNCHANGED <<AutoReconnectErrors, EnableAutoReconnect, storeHasJID,
                   AutoReconnectHook, routerVars>>

\* the top of the loop: the delay is computed from the error count
ReconnectDelay(t) ==
    /\ reconnectTasks[t].pc = "delay"
    /\ AutoReconnectErrors < MaxAttempts
    /\ reconnectTasks' = [reconnectTasks EXCEPT
                             ![t].pc = "sleep",
                             ![t].delay = autoReconnectDelay(AutoReconnectErrors)]
    /\ UNCHANGED <<AutoReconnectErrors, EnableAutoReconnect, storeHasJID,
                   AutoReconnectHook, overlapped, routerVars>>

\* cli.AutoReconnectErrors++; time.Sleep(autoReconnectDelay)
ReconnectSleep(t) ==
    /\ reconnectTasks[t].pc = "sleep"
    /\ AutoReconnectErrors' = AutoReconnectErrors + 1
    /\ reconnectTasks' = [reconnectTasks EXCEPT
                             ![t].pc = "connect",
                             ![t].sleeps = Append(@, reconnectTasks[t].delay)]
    /\ UNCHANGED <<EnableAutoReconnect, storeHasJID, AutoReconnectHook, overlapped,
                   routerVars>>

\* err := cli.Connect(), up to the opening of the socket; ErrAlreadyConnected
\* ends the task
ReconnectConnect(t) ==
    /\ reconnectTasks[t].pc = "connect"
    /\ ConnectBegin
    /\ reconnectTasks' = [reconnectTasks EXCEPT
                             ![t].pc = IF socket # NoSocket /\ socket \in connected
                                       THEN "done" ELSE "handshake"]
    /\ UNCHANGED <<AutoReconnectErrors, EnableAutoReconnect, storeHasJID,
                   AutoReconnectHook, overlapped>>

\* an autoReconnect that gives up after a failed attempt whenever keep is
\* false, hook or no hook
ReconnectConnectedGivingUp(t, result, keep) ==
    /\ reconnectTasks[t].pc = "handshake"
    /\ ConnectEnd(result)
    /\ reconnectTasks' = [reconnectTasks EXCEPT
                             ![t].pc = IF result = "ok" THEN "done"
                                       ELSE IF ~keep THEN "done" ELSE "delay"]
    /\ UNCHANGED <<AutoReconnectErrors, EnableAutoReconnect, storeHasJID,
                   AutoReconnectHook, overlapped>>

\* the rest of cli.Connect() and the test of err: nil ends the task, an error
\* loops unless the hook is set and returns false (keep is what it returns)
ReconnectConnected(t, result, keep) ==
    /\ reconnectTasks[t].pc = "handshake"
    /\ ConnectEnd(result)
    /\ reconnectTasks' = [reconnectTasks EXCEPT
                             ![t].pc = IF result = "ok" THEN "done"
                                       ELSE IF AutoReconnectHook # "nil" /\ ~keep
                                            THEN "done" ELSE "delay"]
    /\ UNCHANGED <<AutoReconnectErrors, EnableAutoReconnect, storeHasJID,
                   AutoReconnectHook, overlapped>>

ReconnectInit(enables, jids, hooks) ==
    /\ AutoReconnectErrors = 0
    /\ EnableAutoReconnect \in enables
    /\ storeHasJID \in jids
    /\ AutoReconnectHook \in hooks
    /\ reconnectTasks = <<>>
    /\ overlapped = FALSE

(***************************************************************************)
(* What the callers of the connection supervisor observe (history)         *)
(***************************************************************************)
VARIABLES
    connectResult,  \* what the last Connect() returned: "none" before the first,
                    \* "opening" while it opens the new socket, "ErrAlreadyConnected",
                    \* "error" or "nil"; dropped is the dead handle it disconnected
                    \* first and cleared the waiters it ended
    droppedBy       \* socket -> the function that set cli.socket to nil for it

supervisorLog == <<connectResult, droppedBy>>

NoConnect == [ret |-> "none", dropped |-> NoSocket, cleared |-> {}]

SupervisorLogInit ==
    /\ connectResult = NoConnect
    /\ droppedBy = EmptyMap

\* the handle a step has dropped, recorded under the function that dropped it
logDrop(by) ==
    droppedBy' = IF socket # NoSocket /\ socket' = NoSocket
                 THEN MapStore(droppedBy, socket, by)
                 ELSE droppedBy


(***************************************************************************)
(* EVENT BUS: client.go, AddEventHandler, RemoveEventHandler,              *)
(* RemoveEventHandlers and dispatchEvent under eventHandlersLock           *)
(***************************************************************************)
VARIABLES
    nextHandlerID,   \* the package's handler id counter
    eventHandlers,   \* cli.eventHandlers: sequence of [fn, id]
    readers,         \* the dispatches that hold eventHandlersLock for reading
    dispatches,      \* the dispatchEvent calls so far, running and returned
    removeCalls,     \* the RemoveEventHandler calls so far, waiting and returned
    registered       \* history: the ids added and not removed, in order of addition

busVars == <<nextHandlerID, eventHandlers, readers, dispatches, removeCalls, registered>>

\* handlers added, events dispatched and removals called in one behaviour
MaxHandlers == 3
MaxDispatches == 1
MaxRemoves == 1

\* what a subscriber does with an event: returns, panics, calls
\* RemoveEventHandler on itself, or spawns a task that does
HandlerKinds == {"ok", "panic", "removeSelf", "spawnRemoveSelf"}

IDs(list) == [i \in DOMAIN list |-> list[i].id]

\* the index the loop of RemoveEventHandler stops at, 0 when no entry has the id
indexOf(list, id) ==
    IF \E i \in DOMAIN list : list[i].id = id
    THEN CHOOSE i \in DOMAIN list :
             list[i].id = id /\ \A j \in 1..(i - 1) : list[j].id # id
    ELSE 0

\* copy(list[index:], list[index+1:])
copyDown(list, index) ==
    [j \in DOMAIN list |-> IF j >= index /\ j < Len(list) THEN list[j + 1] ELSE list[j]]

\* a removal that fills the hole with the last entry
removeAtSwapLast(list, index) ==
    IF index = Len(list)
    THEN SubSeq(list, 1, Len(list) - 1)
    ELSE SubSeq([list EXCEPT ![index] = list[Len(list)]], 1, Len(list) - 1)

\* the body of the loop of RemoveEventHandler once the entry is found at index
\* (counted from 1): the first entry is sliced off, a middle one is overwritten
\* by shifting the tail down, and the last slot is dropped
removeAt(list, index) ==
    IF index = 1
    THEN SubSeq(list, 2, Len(list))
    ELSE IF index < Len(list)
         THEN SubSeq(copyDown(list, index), 1, Len(list) - 1)
         ELSE SubSeq(list, 1, Len(list) - 1)

\* where in the list a removal found its entry
positionOf(list, index) ==
    IF index = 0 THEN "absent"
    ELSE IF index = 1 THEN "first"
    ELSE IF index < Len(list) THEN "middle" ELSE "last"

\* AddEventHandler(handler): the id is taken from the counter, then the entry
\* is appended under the write lock
AddEventHandler(fn) ==
    /\ nextHandlerID < MaxHandlers
    /\ readers = {}
    /\ nextHandlerID' = nextHandlerID + 1
    /\ eventHandlers' = Append(eventHandlers, [fn |-> fn, id |-> nextHandlerID + 1])
    /\ registered' = Append(registered, nextHandlerID + 1)
    /\ UNCHANGED <<readers, dispatches, removeCalls>>

\* a task of its own calls RemoveEventHandler(id) and waits for the write lock
RemoveEventHandlerCalled(id) ==
    /\ Len(removeCalls) < MaxRemoves
    /\ removeCalls' = Append(removeCalls,
                             [id |-> id, by |-> 0, ret |-> "waiting", pos |-> "absent"])
    /\ UNCHANGED <<nextHandlerID, eventHandlers, readers, dispatches, registered>>

\* a RemoveEventHandler(id) whose write lock does not wait for the read lock of
\* the dispatch it is called from
RemoveEventHandlerReentrant(c) ==
    LET call == removeCalls[c]
        index == indexOf(eventHandlers, call.id)
    IN  /\ call.ret = "waiting"
        /\ readers \ {call.by} = {}
        /\ eventHandlers' = IF index = 0 THEN eventHandlers
                            ELSE removeAt(eventHandlers, index)
        /\ removeCalls' = [removeCalls EXCEPT
                              ![c].ret = IF index = 0 THEN "false" ELSE "true",
                              ![c].pos = positionOf(eventHandlers, index)]
        /\ registered' = SelectSeq(registered, LAMBDA x : x # call.id)
        /\ dispatches' = IF call.by = 0 THEN dispatches
                         ELSE [dispatches EXCEPT ![call.by].pc = "loop",
                                                 ![call.by].next = @ + 1]
        /\ UNCHANGED <<nextHandlerID, readers>>

\* RemoveEventHandler(id) once it has the write lock, which it gets when no
\* dispatch holds the lock for reading; a call made from inside a subscriber
\* (by is its dispatch) then returns into the subscriber
RemoveEventHandler(c) ==
    LET call == removeCalls[c]
        index == indexOf(eventHandlers, call.id)
    IN  /\ call.ret = "waiting"
        /\ readers = {}
        /\ eventHandlers' = IF index = 0 THEN eventHandlers
                            ELSE removeAt(eventHandlers, index)
        /\ removeCalls' = [removeCalls EXCEPT
                              ![c].ret = IF index = 0 THEN "false" ELSE "true",
                              ![c].pos = positionOf(eventHandlers, index)]
        /\ registered' = SelectSeq(registered, LAMBDA x : x # call.id)
        /\ dispatches' = IF call.by = 0 THEN dispatches
                         ELSE [dispatches EXCEPT ![call.by].pc = "loop",
                                                 ![call.by].next = @ + 1]
        /\ UNCHANGED <<nextHandlerID, readers>>

\* RemoveEventHandlers(): the list is replaced by an empty one under the write lock
RemoveEventHandlers ==
    /\ readers = {}
    /\ eventHandlers # <<>>
    /\ eventHandlers' = <<>>
    /\ registered' = <<>>
    /\ UNCHANGED <<nextHandlerID, readers, dispatches, removeCalls>>

\* dispatchEvent(evt): the read lock is taken and the range expression
\* cli.eventHandlers is evaluated; expected is what was registered then
DispatchBegin ==
    /\ Len(dispatches) < MaxDispatches
    /\ dispatches' = Append(dispatches,
                            [pc |-> "loop", handlers |-> eventHandlers, next |-> 1,
                             delivered |-> <<>>, panicked |-> FALSE,
                             expected |-> registered])
    /\ readers' = readers \cup {Len(dispatches) + 1}
    /\ UNCHANGED <<nextHandlerID, eventHandlers, removeCalls, registered>>

\* handler.fn(evt) for the next entry of the range.  A subscriber that panics
\* unwinds dispatchEvent: the deferred function releases the read lock and
\* recovers, and dispatchEvent returns.  A subscriber that calls
\* RemoveEventHandler stays in that call until it returns.
DispatchInvoke(d) ==
    LET disp == dispatches[d]
        h == disp.handlers[disp.next]
    IN  /\ disp.pc = "loop"
        /\ disp.next <= Len(disp.handlers)
        /\ dispatches' = [dispatches EXCEPT
              ![d].delivered = Append(@, h.id),
              ![d].pc = IF h.fn = "panic" THEN "done"
                        ELSE IF h.fn = "removeSelf" THEN "removing" ELSE "loop",
              ![d].panicked = (h.fn = "panic"),
              ![d].next = IF h.fn \in {"panic", "removeSelf"} THEN @ ELSE @ + 1]
        /\ readers' = IF h.fn = "panic" THEN readers \ {d} ELSE readers
        /\ removeCalls' =
              IF h.fn \in {"removeSelf", "spawnRemoveSelf"}
              THEN Append(removeCalls,
                          [id |-> h.id, by |-> IF h.fn = "removeSelf" THEN d ELSE 0,
                           ret |-> "waiting", pos |-> "absent"])
              ELSE removeCalls
        /\ UNCHANGED <<nextHandlerID, eventHandlers, registered>>

\* the range is exhausted: the deferred function releases the read lock
DispatchReturn(d) ==
    /\ dispatches[d].pc = "loop"
    /\ dispatches[d].next > Len(dispatches[d].handlers)
    /\ dispatches' = [dispatches EXCEPT ![d].pc = "done"]
    /\ readers' = readers \ {d}
    /\ UNCHANGED <<nextHandlerID, eventHandlers, removeCalls, registered>>

\* NewClient(): eventHandlers: make([]wrappedEventHandler, 0, 1)
BusInit ==
    /\ nextHandlerID = 0
    /\ eventHandlers = <<>>
    /\ readers = {}
    /\ dispatches = <<>>
    /\ removeCalls = <<>>
    /\ registered = <<>>


(***************************************************************************)
(* CALL SIGNALLING: unnamed/part_000, handleCallEvent                      *)
(***************************************************************************)
VARIABLES
    callStanzas,  \* history: the call stanzas handled so far, in order
    callAcks,     \* the stanzas sendAck was spawned for, in order
    callEvents    \* the events handleCallEvent dispatched, in order

callVars == <<callStanzas, callAcks, callEvents>>

\* call stanzas handled in one behaviour
MaxCallStanzas == 2

\* an attribute read as a string: the empty string when the stanza lacks it
AttrString(attrs, key) == IF key \in DOMAIN attrs THEN attrs[key] ELSE ""

\* an attribute read as unix seconds: the zero time unless it is a number
AttrUnixTime(attrs, key) ==
    IF key \in DOMAIN attrs /\ attrs[key] = "1700000000" THEN 1700000000 ELSE 0

\* an attribute read as a JID, user@server
AttrJID(attrs, key) ==
    IF key \notin DOMAIN attrs THEN [User |-> "", Server |-> ""]
    ELSE IF attrs[key] = "X@s" THEN [User |-> "X", Server |-> "s"]
    ELSE IF attrs[key] = "Y@s" THEN [User |-> "Y", Server |-> "s"]
    ELSE [User |-> "", Server |-> ""]

\* the child tags handleCallEvent has a case for, with the event of each
CallEventTypes ==
    [offer |-> "CallOffer", offer_notice |-> "CallOfferNotice",
     relaylatency |-> "CallRelayLatency", accept |-> "CallAccept",
     preaccept |-> "CallPreAccept", transport |-> "CallTransport",
     terminate |-> "CallTerminate"]

\* the optional attributes an outer call stanza or a child may carry
RemoteAttrs(platform, version) ==
    {EmptyMap, [platform |-> platform, version |-> version]}

\* the children a stanza may carry
CallChildren ==
    {[Tag |-> tag,
      Attrs |-> [x \in {"call-creator", "call-id", "media", "type", "reason"} \cup DOMAIN r |->
                    IF x \in DOMAIN r THEN r[x]
                    ELSE IF x = "call-creator" THEN "Y@s"
                    ELSE IF x = "call-id" THEN "C1"
                    ELSE IF x = "media" THEN "audio"
                    ELSE IF x = "type" THEN "group" ELSE "timeout"]] :
        tag \in DOMAIN CallEventTypes \cup {"bogus"}, r \in RemoteAttrs("iOS", "2.24")}

\* the call stanzas that arrive: no child, one child of every kind, or two
CallNodes ==
    {[Attrs |-> [x \in {"from", "t"} \cup DOMAIN r |->
                    IF x \in DOMAIN r THEN r[x]
                    ELSE IF x = "from" THEN "X@s" ELSE "1700000000"],
      Children |-> children] :
        r \in RemoteAttrs("android", "2.23"),
        children \in {<<>>} \cup {<<c>> : c \in CallChildren}
                     \cup {<<c, c>> : c \in {d \in CallChildren : d.Tag = "offer"}}}

\* the event handleCallEvent dispatches for a stanza
callEvent(node) ==
    IF Len(node.Children) # 1
    THEN [type |-> "UnknownCallEvent", Node |-> node]
    ELSE LET ag == node.Attrs
             child == node.Children[1]
             cag == child.Attrs
             basicMeta == [From |-> AttrJID(ag, "from"),
                           Timestamp |-> AttrUnixTime(ag, "t"),
                           CallCreator |-> AttrJID(cag, "call-creator"),
                           CallID |-> AttrString(cag, "call-id")]
             remoteMeta == [RemotePlatform |-> AttrString(ag, "platform"),
                            RemoteVersion |-> AttrString(ag, "version")]
         IN  CASE child.Tag \in {"offer", "accept", "preaccept", "transport"} ->
                    [type |-> CallEventTypes[child.Tag], BasicCallMeta |-> basicMeta,
                     CallRemoteMeta |-> remoteMeta, Data |-> child]
               [] child.Tag = "offer_notice" ->
                    [type |-> "CallOfferNotice", BasicCallMeta |-> basicMeta,
                     Media |-> AttrString(cag, "media"),
                     Type |-> AttrString(cag, "type"), Data |-> child]
               [] child.Tag = "relaylatency" ->
                    [type |-> "CallRelayLatency", BasicCallMeta |-> basicMeta,
                     Data |-> child]
               [] child.Tag = "terminate" ->
                    [type |-> "CallTerminate", BasicCallMeta |-> basicMeta,
                     Reason |-> AttrString(cag, "reason"), Data |-> child]
               [] OTHER -> [type |-> "UnknownCallEvent", Node |-> node]

\* a handler that acknowledges only the stanzas it understands
handleCallEventAckTyped(node) ==
    /\ Len(callStanzas) < MaxCallStanzas
    /\ callStanzas' = Append(callStanzas, node)
    /\ callAcks' = IF callEvent(node).type = "UnknownCallEvent"
                   THEN callAcks ELSE Append(callAcks, node)
    /\ callEvents' = Append(callEvents, callEvent(node))

\* handleCallEvent(node): go cli.sendAck(node), then one dispatchEvent
handleCallEvent(node) ==
    /\ Len(callStanzas) < MaxCallStanzas
    /\ callStanzas' = Append(callStanzas, node)
    /\ callAcks' = Append(callAcks, node)
    /\ callEvents' = Append(callEvents, callEvent(node))

CallInit ==
    /\ callStanzas = <<>>
    /\ callAcks = <<>>
    /\ callEvents = <<>>


(***************************************************************************)
(* READINESS: client.go, WaitForConnection and closeSocketWaitChan         *)
(***************************************************************************)
VARIABLES
    isLoggedIn,   \* cli.isLoggedIn
    socketWait,   \* cli.socketWait: the current readiness channel
    closedChans,  \* the readiness channels closed so far
    waitCalls,    \* the WaitForConnection calls so far, running and returned
    authenticated \* history: the socket whose authentication completed last

waitVars == <<isLoggedIn, socketWait, closedChans, waitCalls, authenticated>>

\* WaitForConnection calls and closeSocketWaitChan calls in one behaviour
MaxWaitCalls == 2
MaxCloses == 1

\* the test of the loop of WaitForConnection, negated
clientReady == socket # NoSocket /\ socket \in connected /\ isLoggedIn

\* WaitForConnection(timeout): timeoutChan := time.After(timeout), then the read
\* lock is asked for.  promised is history: the call was blocked when the
\* channel was closed on a ready client before its timeout
NewWaitCall == [pc |-> "test", ch |-> 0, timedOut |-> FALSE, promised |-> FALSE]

WaitForConnectionCalled ==
    /\ Len(waitCalls) < MaxWaitCalls
    /\ waitCalls' = Append(waitCalls, NewWaitCall)
    /\ UNCHANGED <<isLoggedIn, socketWait, closedChans, authenticated>>

\* the timer of a call fires: timeoutChan becomes ready.  A call parked in
\* the select takes that case and returns false
TimeoutFires(w) ==
    /\ waitCalls[w].pc \in {"test", "select", "parked", "woken"}
    /\ ~waitCalls[w].timedOut
    /\ waitCalls' = [waitCalls EXCEPT
                        ![w].timedOut = TRUE,
                        ![w].pc = IF @ = "parked" THEN "false" ELSE @]
    /\ UNCHANGED <<isLoggedIn, socketWait, closedChans, authenticated>>

\* a test that parks the call without taking the channel under the lock: the
\* channel is read when the select is reached
WaitTestLateChannel(w) ==
    /\ waitCalls[w].pc \in {"test", "woken"}
    /\ ~connecting
    /\ waitCalls' = [waitCalls EXCEPT
                        ![w].pc = IF clientReady THEN "true" ELSE "select",
                        ![w].ch = 0]
    /\ UNCHANGED <<isLoggedIn, socketWait, closedChans, authenticated>>

\* under the read lock, which Connect() keeps out while it runs: the test of
\* the loop, and when the client is not ready ch := cli.socketWait
WaitTest(w) ==
    /\ waitCalls[w].pc \in {"test", "woken"}
    /\ ~connecting
    /\ waitCalls' = [waitCalls EXCEPT
                        ![w].pc = IF clientReady THEN "true" ELSE "select",
                        ![w].ch = IF clientReady THEN @ ELSE socketWait]
    /\ UNCHANGED <<isLoggedIn, socketWait, closedChans, authenticated>>

\* the select on ch and timeoutChan is reached: with both ready either case is
\* taken (takeTimeout), with one ready that one, with none the call parks
WaitSelect(w, takeTimeout) ==
    LET call == waitCalls[w]
        chReady == call.ch \in closedChans
    IN  /\ call.pc = "select"
        /\ waitCalls' = [waitCalls EXCEPT ![w].pc =
              IF chReady /\ call.timedOut
              THEN IF takeTimeout THEN "false" ELSE "woken"
              ELSE IF chReady THEN "woken"
              ELSE IF call.timedOut THEN "false" ELSE "parked"]
        /\ UNCHANGED <<isLoggedIn, socketWait, closedChans, authenticated>>

\* closeSocketWaitChan() under the write lock: close(cli.socketWait) wakes the
\* calls parked on it, then a new channel replaces it
closeSocketWaitChan ==
    /\ Cardinality(closedChans) < MaxCloses
    /\ ~connecting
    /\ closedChans' = closedChans \cup {socketWait}
    /\ socketWait' = socketWait + 1
    /\ waitCalls' = [w \in DOMAIN waitCalls |->
          IF waitCalls[w].pc = "parked" /\ waitCalls[w].ch = socketWait
          THEN [waitCalls[w] EXCEPT !.pc = "woken", !.promised = (@ \/ clientReady)]
          ELSE waitCalls[w]]
    /\ UNCHANGED <<isLoggedIn, authenticated>>

\* the server's success stanza has been handled: the client is authenticated
LoginSucceeds ==
    /\ socket # NoSocket /\ socket \in connected
    /\ ~isLoggedIn
    /\ isLoggedIn' = TRUE
    /\ authenticated' = socket
    /\ UNCHANGED <<socketWait, closedChans, waitCalls>>

\* NewClient(): socketWait: make(chan struct{})
WaitInit ==
    /\ isLoggedIn = FALSE
    /\ socketWait = 1
    /\ closedChans = {}
    /\ waitCalls = <<>>
    /\ authenticated = NoSocket

(***************************************************************************)
(* RETRY RECEIPTS HANDLED CONCURRENTLY: retry.go, handleRetryReceipt(), the *)
(* read-increment-write of incomingRetryRequestCounter as each handler task *)
(* performs it                                                              *)
(***************************************************************************)
VARIABLES
    retryTasks      \* the handleRetryReceipt calls in flight or finished:
                    \* [key, pc, internalCounter, dropped]

counterVars == <<retryTasks>>

\* Concurrent handleRetryReceipt calls a run may start.
MaxRetryTasks == 3

RetryKeys == {incomingRetryKey("u1.0@s", id) : id \in 1..2}

\* a handleRetryReceipt call that found its message: retryKey is built
RetryTaskBegin(key) ==
    /\ Len(retryTasks) < MaxRetryTasks
    /\ retryTasks' = Append(retryTasks, [key |-> key, pc |-> "load",
                                         internalCounter |-> 0, dropped |-> FALSE])
    /\ UNCHANGED retryVars

\* internalCounter, _ := cli.incomingRetryRequestCounter.Load(retryKey)
\* internalCounter++
RetryTaskLoad(t) ==
    /\ retryTasks[t].pc = "load"
    /\ retryTasks' = [retryTasks EXCEPT
          ![t].pc = "store",
          ![t].internalCounter =
              LoadInt(incomingRetryRequestCounter, retryTasks[t].key) + 1]
    /\ UNCHANGED retryVars

\* cli.incomingRetryRequestCounter.Store(retryKey, internalCounter), and the
\* test of the drop threshold: the receipt is processed at this counter value
RetryTaskStore(t) ==
    /\ retryTasks[t].pc = "store"
    /\ incomingRetryRequestCounter' =
          MapStore(incomingRetryRequestCounter, retryTasks[t].key,
                   retryTasks[t].internalCounter)
    /\ retryTasks' = [retryTasks EXCEPT
          ![t].pc = "done",
          ![t].dropped = retryDropped(retryTasks[t].internalCounter)]
    /\ UNCHANGED <<sessionRecreateHistory, sessions, now, handled, last>>

CounterInit == retryTasks = <<>>

(***************************************************************************)
(* What the user asked for last (history)                                  *)
(***************************************************************************)
VARIABLES
    userDisconnected    \* the user's Disconnect() has returned and the user has
                        \* not called Connect() since

userVars == <<userDisconnected>>

\* Disconnect() without a socket: if cli.socket == nil { return }
DisconnectNoSocket ==
    /\ socket = NoSocket
    /\ UNCHANGED routerVars

UserInit == userDisconnected = FALSE

(***************************************************************************)
(* CLIENT STATE outside the router                                         *)
(***************************************************************************)
clientVars == <<reconnectVars, supervisorLog, busVars, callVars, waitVars, counterVars,
               userVars>>

\* NewClient(): EnableAutoReconnect: true, no hook
ClientInit ==
    /\ ReconnectInit({TRUE}, {TRUE}, {"nil"})
    /\ SupervisorLogInit
    /\ BusInit
    /\ CallInit
    /\ WaitInit
    /\ CounterInit
    /\ UserInit

(***************************************************************************)
(*                          SPECIFICATIONS                                 *)
(***************************************************************************)
vars == <<ringVars, retryVars, inboundVars, routerVars, clientVars>>

\* The ring at its real capacity, fed pairwise-distinct keys: the n-th call
\* stores message id n, for recipients alternating by one of three patterns.
\* The pattern and the plaintext are chosen by the first call and kept
\* (they are read back from `stored` and the map), so a run is one stream.
DistinctTo(pattern, n) ==
    IF pattern = 0 THEN "a@s"
    ELSE IF pattern = 1 THEN (IF n % 2 = 0 THEN "a@s" ELSE "b@s")
    ELSE (IF n % 3 = 0 THEN "b@s" ELSE "a@s")

AddDistinct ==
    /\ Len(stored) < recentMessagesSize + MaxExtra
    /\ \E pattern \in 0..2 :
          /\ \A i \in 1..Len(stored) : stored[i].To = DistinctTo(pattern, i)
          /\ \E message \in Messages :
                /\ (Len(stored) > 0 => message = recentMessagesMap[stored[Len(stored)]])
                /\ addRecentMessage(DistinctTo(pattern, Len(stored) + 1),
                                    Len(stored) + 1, message)
    /\ UNCHANGED <<retryVars, inboundVars, routerVars, clientVars>>

InitRingFull == RingInit(recentMessagesSize) /\ RetryInit /\ InboundInit({FALSE}) /\ RouterInit /\ ClientInit
NextRingFull == AddDistinct
SpecRingFull == InitRingFull /\ [][NextRingFull]_vars

\* The scaled-down ring, fed any keys: repeated keys and the empty id included.
AddRecent ==
    /\ StoreRecent(JIDs, 0..MaxMsgID, Messages, MaxAdds)
    /\ UNCHANGED <<retryVars, inboundVars, routerVars, clientVars>>

InitRing == RingInit(SmallRingSize) /\ RetryInit /\ InboundInit({FALSE}) /\ RouterInit /\ ClientInit
NextRing == AddRecent
SpecRing == InitRing /\ [][NextRing]_vars

\* The outbound retry engine under repeated receipts: message 1 (cached in the
\* ring once sent) receives up to MaxReceipts receipts, message 2 up to
\* MaxOtherReceipts.
SendCached ==
    /\ StoreRecent({"a@s"}, {1}, {"m1"}, 1)
    /\ UNCHANGED <<retryVars, inboundVars, routerVars, clientVars>>

RetryReceipt ==
    /\ RetryReceiptArrives({"u1.0@s"}, 1..2, {1}, {"m1", Nil}, RetryInputs,
                           [j \in {"u1.0@s"} |->
                               [id \in 1..2 |-> IF id = 1 THEN MaxReceipts
                                               ELSE MaxOtherReceipts]])
    /\ UNCHANGED <<inboundVars, routerVars, clientVars>>

InitRetry == RingInit(SmallRingSize) /\ RetryInit /\ InboundInit({FALSE}) /\ RouterInit /\ ClientInit
NextRetry == SendCached \/ RetryReceipt
SpecRetry == InitRetry /\ [][NextRetry]_vars

\* The session-recreation policy under a moving clock.
PolicyReceipt ==
    /\ RetryReceiptArrives(Senders, {1}, 0..MaxCount, {"m1"}, PolicyInputs,
                           [j \in Senders |->
                               [id \in {1} |-> IF j = "u1.0@s" THEN MaxPolicyReceipts
                                               ELSE 1]])
    /\ UNCHANGED <<inboundVars, routerVars, clientVars>>

ClockTick == Tick /\ UNCHANGED <<inboundVars, routerVars, clientVars>>

StoreLosesSession == SessionLost /\ UNCHANGED <<inboundVars, routerVars, clientVars>>

InitPolicy == RingInit(SmallRingSize) /\ RetryInit /\ InboundInit({FALSE}) /\ RouterInit /\ ClientInit
NextPolicy == PolicyReceipt \/ ClockTick \/ StoreLosesSession
SpecPolicy == InitPolicy /\ [][NextPolicy]_vars

\* The PreRetryCallback: receipts for a cached message arrive in every context,
\* with and without a keys child, and the callback accepts or vetoes them.
VetoableReceipt ==
    /\ RetryReceiptArrives({"u1.0@s"}, {1}, 0..MaxCount, {"m1"}, CleanInputs,
                           [j \in {"u1.0@s"} |-> [id \in {1} |-> MaxPolicyReceipts]])
    /\ UNCHANGED <<inboundVars, routerVars, clientVars>>

NextVeto == SendCached \/ VetoableReceipt \/ StoreLosesSession
SpecVeto == InitPolicy /\ [][NextVeto]_vars

InboundIdle == UNCHANGED <<ringVars, retryVars, routerVars, clientVars>>

\* The inbound retry receipts: repeated decrypt failures of message 1 (and a few
\* of message 2), with every collaborator failure and any count carried by the
\* message, the phone rerequest being switched off.
ReceiptDecryptFails ==
    /\ DecryptFails(0..MaxCount, {"none", "prekey", "marshal", "send"},
                    [id \in InboundIDs |-> IF id = 1 THEN MaxCalls ELSE MaxOtherReceipts])
    /\ InboundIdle

RerequestTask == TaskStep /\ InboundIdle

InitReceipts == RingInit(SmallRingSize) /\ RetryInit /\ InboundInit({FALSE}) /\ RouterInit /\ ClientInit
NextReceipts == ReceiptDecryptFails \/ RerequestTask
SpecReceipts == InitReceipts /\ [][NextReceipts]_vars

\* The delayed phone rerequest: decrypt failures, the spawned goroutines' steps
\* and cancellation in every interleaving, with the option on or off.
PhoneDecryptFails ==
    /\ DecryptFails(0..1, {"none"}, [id \in InboundIDs |-> MaxPhoneCalls])
    /\ InboundIdle

DecryptedAfterAll == DecryptSucceeds /\ InboundIdle

InitInbound == RingInit(SmallRingSize) /\ RetryInit /\ InboundInit(BOOLEAN) /\ RouterInit /\ ClientInit
NextInbound == PhoneDecryptFails \/ RerequestTask \/ DecryptedAfterAll
SpecInbound == InitInbound /\ [][NextInbound]_vars

\* Overlapping phone rerequests: delayedRequestMessageFromPhone is started
\* more than once, also for the same message id, and the tasks and the
\* cancellations run in every interleaving.
RerequestSpawned == (\E id \in InboundIDs : spawnDelayedRequest(id)) /\ InboundIdle

NextRerequest == RerequestSpawned \/ RerequestTask \/ DecryptedAfterAll
SpecRerequest == InitInbound /\ [][NextRerequest]_vars

\* The client's connection and routing under every interleaving of the user's
\* calls, the network, the arriving frames, the consumers and the handlers.
RouterIdle == UNCHANGED <<ringVars, retryVars, inboundVars, clientVars>>

ConnectCalled == ConnectBegin /\ RouterIdle

ConnectReturns ==
    /\ \E result \in {"connectfail", "handshakefail", "ok"} : ConnectEnd(result)
    /\ RouterIdle

DisconnectCalled == DisconnectBegin /\ RouterIdle

DisconnectRuns == DisconnectLocked /\ RouterIdle

DisconnectExpected == expectDisconnect /\ RouterIdle

SocketClosed ==
    /\ \E ns \in connected, remote \in BOOLEAN : SocketCloses(ns, remote)
    /\ RouterIdle

OnDisconnectRuns ==
    /\ \E ns \in DOMAIN callbacks : onDisconnect(ns)
    /\ RouterIdle

RequestSent == RegisterWaiter /\ RouterIdle

OverflowPushed == BlockedPush /\ RouterIdle

ConsumerRuns == ConsumerStep /\ RouterIdle

HandlerRuns == HandlerStep /\ RouterIdle

\* The stanza router on one connection: requests register waiters while frames
\* of every tag arrive, with and without an id, and the consumer drains the queue.
FrameReceived == FrameArrives(NodeTags, 0..MaxReqID, MaxFrames) /\ RouterIdle

InitRouter == RingInit(SmallRingSize) /\ RetryInit /\ InboundInit({FALSE}) /\ RouterInit /\ ClientInit
NextRouter ==
    \/ ConnectCalled \/ ConnectReturns \/ RequestSent \/ FrameReceived
    \/ OverflowPushed \/ ConsumerRuns \/ HandlerRuns
SpecRouter == InitRouter /\ [][NextRouter]_vars

\* The connection supervisor and the response waiters: connects, disconnects
\* and socket closures in every interleaving, while requests register waiters
\* and acks answer them.
AckReceived == FrameArrives({"ack"}, 0..MaxReqID, MaxAcks) /\ RouterIdle

InitConn == RingInit(SmallRingSize) /\ RetryInit /\ InboundInit({FALSE}) /\ RouterInit /\ ClientInit
NextConn ==
    \/ ConnectCalled \/ ConnectReturns \/ DisconnectCalled \/ DisconnectRuns
    \/ DisconnectExpected \/ SocketClosed \/ OnDisconnectRuns \/ RequestSent
    \/ AckReceived
SpecConn == InitConn /\ [][NextConn]_vars

\* The dispatch queue across reconnects: messages arrive while the client
\* connects, disconnects and reconnects, and consumers and handlers run in
\* every interleaving.
MessageReceived == FrameArrives({"message"}, {NoID}, MaxFrames) /\ RouterIdle

Init == RingInit(SmallRingSize) /\ RetryInit /\ InboundInit({FALSE}) /\ RouterInit /\ ClientInit
Next ==
    \/ ConnectCalled \/ ConnectReturns \/ DisconnectCalled \/ DisconnectRuns
    \/ SocketClosed \/ OnDisconnectRuns \/ MessageReceived \/ OverflowPushed
    \/ ConsumerRuns \/ HandlerRuns
Spec == Init /\ [][Next]_vars

\* Auto-reconnect: the user connects and disconnects, sockets close, and every
\* unexpected remote disconnection spawns an autoReconnect task whose connection
\* attempts succeed or fail as the network decides.
ReconnectIdle ==
    UNCHANGED <<ringVars, retryVars, inboundVars, supervisorLog, busVars, callVars,
               waitVars, counterVars,
               userVars>>

UserConnectReturns ==
    /\ \A t \in DOMAIN reconnectTasks : reconnectTasks[t].pc # "handshake"
    /\ ConnectReturns

OnDisconnectSpawns ==
    /\ \E ns \in DOMAIN callbacks : onDisconnect(ns)
    /\ spawnAutoReconnect
    /\ UNCHANGED <<AutoReconnectErrors, EnableAutoReconnect, storeHasJID,
                   AutoReconnectHook, overlapped>>
    /\ ReconnectIdle

ReconnectStarts ==
    /\ \E t \in DOMAIN reconnectTasks : ReconnectStart(t)
    /\ ReconnectIdle

ReconnectDelays ==
    /\ \E t \in DOMAIN reconnectTasks : ReconnectDelay(t)
    /\ ReconnectIdle

ReconnectSleeps ==
    /\ \E t \in DOMAIN reconnectTasks : ReconnectSleep(t)
    /\ ReconnectIdle

ReconnectConnects ==
    /\ \E t \in DOMAIN reconnectTasks : ReconnectConnect(t)
    /\ ReconnectIdle

ReconnectReturns ==
    /\ \E t \in DOMAIN reconnectTasks, keep \in BOOLEAN,
          result \in {"connectfail", "handshakefail", "ok"} :
              ReconnectConnected(t, result, keep)
    /\ ReconnectIdle

InitReconnect ==
    /\ RingInit(SmallRingSize) /\ RetryInit /\ InboundInit({FALSE}) /\ RouterInit
    /\ ReconnectInit(BOOLEAN, BOOLEAN, {"nil", "set"})
    /\ SupervisorLogInit
    /\ BusInit
    /\ CallInit
    /\ WaitInit
    /\ CounterInit
    /\ UserInit
NextReconnect ==
    \/ ConnectCalled \/ UserConnectReturns \/ DisconnectCalled \/ DisconnectRuns
    \/ SocketClosed \/ OnDisconnectSpawns \/ ReconnectStarts \/ ReconnectDelays
    \/ ReconnectSleeps \/ ReconnectConnects \/ ReconnectReturns
SpecReconnect == InitReconnect /\ [][NextReconnect]_vars


\* Auto-reconnect against the user's wishes: as above, with a record of whether
\* the user's last completed request was a Disconnect().
OfflineIdle ==
    UNCHANGED <<ringVars, retryVars, inboundVars, supervisorLog, busVars, callVars,
               waitVars, counterVars>>

UserConnectInFlight ==
    connecting /\ \A t \in DOMAIN reconnectTasks : reconnectTasks[t].pc # "handshake"

UserConnects ==
    /\ ConnectBegin
    /\ userDisconnected' = FALSE
    /\ UNCHANGED reconnectVars
    /\ OfflineIdle

UserDisconnectReturns ==
    /\ DisconnectLocked
    /\ userDisconnected' = TRUE
    /\ UNCHANGED reconnectVars
    /\ OfflineIdle

UserDisconnectFindsNoSocket ==
    /\ DisconnectNoSocket
    /\ ~disconnecting /\ ~UserConnectInFlight
    /\ userDisconnected' = TRUE
    /\ UNCHANGED reconnectVars
    /\ OfflineIdle

NextOffline ==
    \/ UserConnects \/ UserConnectReturns \/ DisconnectCalled \/ UserDisconnectReturns
    \/ UserDisconnectFindsNoSocket \/ SocketClosed \/ OnDisconnectSpawns
    \/ ReconnectStarts \/ ReconnectDelays \/ ReconnectSleeps \/ ReconnectConnects
    \/ ReconnectReturns
SpecOffline == InitReconnect /\ [][NextOffline]_vars


\* The connection supervisor as its callers observe it: what each Connect()
\* returned and which function dropped each socket handle, while the user
\* connects and disconnects, handlers expect disconnections, sockets close and
\* requests register waiters.
SupervisorIdle ==
    UNCHANGED <<ringVars, retryVars, inboundVars, reconnectVars, busVars, callVars,
               waitVars, counterVars,
               userVars>>

ConnectObserved ==
    /\ ConnectBegin
    /\ connectResult' =
          IF socket # NoSocket /\ socket \in connected
          THEN [ret |-> "ErrAlreadyConnected", dropped |-> NoSocket, cleared |-> {}]
          ELSE [ret |-> "opening", dropped |-> socket,
                cleared |-> IF socket # NoSocket THEN Range(responseWaiters) ELSE {}]
    /\ logDrop("Connect")
    /\ SupervisorIdle

ConnectReturnObserved ==
    /\ \E result \in {"connectfail", "handshakefail", "ok"} :
          /\ ConnectEnd(result)
          /\ connectResult' = [ret |-> IF result = "ok" THEN "nil" ELSE "error",
                               dropped |-> NoSocket, cleared |-> {}]
    /\ UNCHANGED droppedBy
    /\ SupervisorIdle

DisconnectObserved ==
    /\ DisconnectLocked
    /\ logDrop("Disconnect")
    /\ UNCHANGED connectResult
    /\ SupervisorIdle

OnDisconnectObserved ==
    /\ \E ns \in DOMAIN callbacks : onDisconnect(ns)
    /\ logDrop("onDisconnect")
    /\ UNCHANGED connectResult
    /\ SupervisorIdle

InitSupervisor == RingInit(SmallRingSize) /\ RetryInit /\ InboundInit({FALSE}) /\ RouterInit /\ ClientInit
NextSupervisor ==
    \/ ConnectObserved \/ ConnectReturnObserved \/ DisconnectCalled
    \/ DisconnectObserved \/ DisconnectExpected \/ SocketClosed
    \/ OnDisconnectObserved \/ RequestSent
SpecSupervisor == InitSupervisor /\ [][NextSupervisor]_vars


\* The event bus: subscribers that return or panic are added and removed, by id
\* and all at once, while events are dispatched.
BusIdle == UNCHANGED <<ringVars, retryVars, inboundVars, routerVars, reconnectVars,
                       supervisorLog, callVars, waitVars, counterVars,
               userVars>>

HandlerAdded == (\E fn \in {"ok", "panic"} : AddEventHandler(fn)) /\ BusIdle

RemoveCalled == (\E id \in 1..MaxHandlers : RemoveEventHandlerCalled(id)) /\ BusIdle

RemoveRuns == (\E c \in DOMAIN removeCalls : RemoveEventHandler(c)) /\ BusIdle

AllHandlersRemoved == RemoveEventHandlers /\ BusIdle

EventDispatched == DispatchBegin /\ BusIdle

SubscriberInvoked == (\E d \in DOMAIN dispatches : DispatchInvoke(d)) /\ BusIdle

DispatchReturns == (\E d \in DOMAIN dispatches : DispatchReturn(d)) /\ BusIdle

InitBus == RingInit(SmallRingSize) /\ RetryInit /\ InboundInit({FALSE}) /\ RouterInit /\ ClientInit
NextBus ==
    \/ HandlerAdded \/ RemoveCalled \/ RemoveRuns \/ AllHandlersRemoved
    \/ EventDispatched \/ SubscriberInvoked \/ DispatchReturns
SpecBus == InitBus /\ [][NextBus]_vars

\* Subscribers that remove themselves, from inside the subscriber or from a
\* task they spawn.  Every task that can take a step eventually takes it.
RemoverAdded ==
    (\E fn \in {"ok", "removeSelf", "spawnRemoveSelf"} : AddEventHandler(fn)) /\ BusIdle

NextRemovers ==
    \/ RemoverAdded \/ RemoveRuns \/ EventDispatched \/ SubscriberInvoked
    \/ DispatchReturns
SpecRemovers ==
    /\ InitBus /\ [][NextRemovers]_vars
    /\ WF_vars(RemoveRuns) /\ WF_vars(SubscriberInvoked) /\ WF_vars(DispatchReturns)


\* Call signalling: call stanzas of every shape arrive and are handled.
CallStanzaArrives ==
    /\ \E node \in CallNodes : handleCallEvent(node)
    /\ UNCHANGED <<ringVars, retryVars, inboundVars, routerVars, reconnectVars,
                   supervisorLog, busVars, waitVars, counterVars,
               userVars>>

InitCall == RingInit(SmallRingSize) /\ RetryInit /\ InboundInit({FALSE}) /\ RouterInit /\ ClientInit
NextCall == CallStanzaArrives
SpecCall == InitCall /\ [][NextCall]_vars


\* Readiness: tasks wait for the connection while the client connects, logs in
\* and loses its socket, and the readiness channel is closed and replaced.
WaitIdle == UNCHANGED <<ringVars, retryVars, inboundVars, routerVars, reconnectVars,
                        supervisorLog, busVars, callVars, counterVars,
               userVars>>

WaitCalled == WaitForConnectionCalled /\ WaitIdle

TimerFires == (\E w \in DOMAIN waitCalls : TimeoutFires(w)) /\ WaitIdle

WaitTests == (\E w \in DOMAIN waitCalls : WaitTest(w)) /\ WaitIdle

WaitSelects ==
    (\E w \in DOMAIN waitCalls, takeTimeout \in BOOLEAN : WaitSelect(w, takeTimeout))
        /\ WaitIdle

ReadinessSignalled == closeSocketWaitChan /\ WaitIdle

Authenticated == LoginSucceeds /\ WaitIdle

\* the network drops the connection; the callback has not run yet
ConnectionLost == (\E ns \in connected : SocketCloses(ns, TRUE)) /\ RouterIdle

InitWait == RingInit(SmallRingSize) /\ RetryInit /\ InboundInit({FALSE}) /\ RouterInit /\ ClientInit
NextWait ==
    \/ ConnectCalled \/ ConnectReturns \/ ConnectionLost
    \/ Authenticated \/ ReadinessSignalled \/ WaitCalled \/ TimerFires
    \/ WaitTests \/ WaitSelects
SpecWait == InitWait /\ [][NextWait]_vars


\* The login flag across the life of connections: the user connects and
\* disconnects, sockets close, and the server authenticates the client.
NextLogin ==
    \/ ConnectCalled \/ ConnectReturns \/ DisconnectCalled \/ DisconnectRuns
    \/ SocketClosed \/ OnDisconnectRuns \/ Authenticated
SpecLogin == InitWait /\ [][NextLogin]_vars


\* Retry receipts for the same messages handled by concurrent handler tasks:
\* each task reads the counter, increments its copy and writes it back, in
\* every interleaving.
CounterIdle ==
    UNCHANGED <<ringVars, inboundVars, routerVars, reconnectVars, supervisorLog,
               busVars, callVars, waitVars, userVars>>

RetryTaskSpawned == (\E key \in RetryKeys : RetryTaskBegin(key)) /\ CounterIdle

RetryTaskLoads == (\E t \in DOMAIN retryTasks : RetryTaskLoad(t)) /\ CounterIdle

RetryTaskStores == (\E t \in DOMAIN retryTasks : RetryTaskStore(t)) /\ CounterIdle

NextCounter == RetryTaskSpawned \/ RetryTaskLoads \/ RetryTaskStores
SpecCounter == InitRetry /\ [][NextCounter]_vars

(***************************************************************************)
(*                               CLAIMS                                    *)
(***************************************************************************)
RECURSIVE LastDistinctKeys(_, _, _)
\* the last n distinct elements of seq, scanning from its end
LastDistinctKeys(seq, n, acc) ==
    IF seq = <<>> \/ Cardinality(acc) >= n THEN acc
    ELSE LastDistinctKeys(SubSeq(seq, 1, Len(seq) - 1), n, acc \cup {seq[Len(seq)]})

\* the keys stored so far are pairwise distinct and have non-empty ids
StoredDistinctNonEmpty ==
    /\ Cardinality(Range(stored)) = Len(stored)
    /\ \A i \in DOMAIN stored : stored[i].ID # NoID

\* C4: after K > capacity insertions of pairwise-distinct keys with non-empty
\* ids, the ring holds exactly capacity non-empty slots, the index map holds
\* exactly capacity entries, and the map's keys are the keys of the non-empty
\* ring slots (capacity = recentMessagesSize = 256).
C4_RingBound ==
    (Len(stored) > recentMessagesSize /\ StoredDistinctNonEmpty) =>
        /\ Len(recentMessagesList) = recentMessagesSize
        /\ Cardinality(NonEmptySlots) = recentMessagesSize
        /\ Cardinality(DOMAIN recentMessagesMap) = recentMessagesSize
        /\ DOMAIN recentMessagesMap = RingKeys

\* C4 witness: more than 256 distinct keys have been inserted and the ring wrapped
C4_Witness ==
    /\ Len(stored) = recentMessagesSize + 2
    /\ StoredDistinctNonEmpty
    /\ recentMessagesPtr = 2
    /\ recentMessageKey(stored[1].To, 1) \notin DOMAIN recentMessagesMap

\* C5 (as claimed): after any sequence of addRecentMessage calls, repeated keys
\* and empty ids included, the keys of the index map are exactly the keys held
\* in non-empty ring slots.  Stated here for the calls with non-empty ids
\* alone, which the claim covers: repeated keys already break it.
C5_MapEqualsRing ==
    (\A i \in DOMAIN stored : stored[i].ID # NoID) => DOMAIN recentMessagesMap = RingKeys

\* C6 (as claimed): getRecentMessage returns a plaintext for each of the last
\* `capacity` distinct keys stored, also when keys were stored more than once.
\* Stated for calls with non-empty ids.
C6_LastKeysVisible ==
    (\A i \in DOMAIN stored : stored[i].ID # NoID) =>
        \A key \in LastDistinctKeys(stored, Len(recentMessagesList), {}) :
            getRecentMessage(key.To, key.ID) # Nil

\* the latest call reached the retry counter (well-formed receipt, plaintext found)
LastCounted == last.outcome \notin {"init", "malformed", "notfound"}

\* the latest call met no PreRetryCallback veto and no failure
LastClean == LastCounted /\ last.callback # "false" /\ last.fail = "none"

\* how many receipts of the latest call's (sender, message id) reached the counter
LastOrdinal == LoadInt(handled, incomingRetryKey(last.sender, last.messageID))

\* C7 (as claimed): with the plaintext recoverable, no veto and no error, each of
\* the first 10 retry receipts of a pair produces exactly one outbound message
\* stanza and the 11th produces none.
C7_TenRetriesSent ==
    LastClean => last.nSent = (IF LastOrdinal <= 10 THEN 1 ELSE 0)

\* C7 (amended): each of the first 9 retry receipts of a pair produces exactly one
\* outbound message stanza; the 10th and every later one produces none, whatever
\* the other inputs are.
C7_NineRetriesSent ==
    /\ LastClean => last.nSent = (IF LastOrdinal <= 9 THEN 1 ELSE 0)
    /\ (LastCounted /\ LastOrdinal >= 10) => (last.nSent = 0 /\ last.outcome = "dropped")
    /\ (last.nSent = 1) = (last.outcome = "sent")
    /\ LastCounted =>
          incomingRetryRequestCounter[incomingRetryKey(last.sender, last.messageID)]
              = LastOrdinal

\* C7 witness: the 10th receipt of a pair, free of veto and error, was dropped
C7_Witness ==
    /\ LastClean
    /\ last.sender = "u1.0@s" /\ last.messageID = 1
    /\ LastOrdinal = 10
    /\ last.outcome = "dropped"
    /\ last.nSent = 0

\* the session-recreation rule as the claim states it, on what the call started from
PolicySaysFetch ==
    \/ ~last.hadSession
    \/ /\ last.count >= 2
       /\ (~last.prevKnown \/ last.at - last.prevTime > recreateSessionTimeout)

\* C10: for a retry receipt without a keys child that reaches session
\* management, a prekey bundle is fetched iff no session exists for the sender,
\* or retryCount >= 2 and there is no recorded recreation for the JID or the
\* last one is more than one hour old; never with a session and retryCount <= 1;
\* and every decision to recreate records the current time for the JID, while a
\* decision not to recreate leaves the record as it was.
C10_RecreatePolicy ==
    (last.reached /\ ~last.hasKeys) =>
        /\ last.fetched = PolicySaysFetch
        /\ (last.hadSession /\ last.count <= 1) => ~last.fetched
        /\ last.fetched =>
              /\ last.sender \in DOMAIN sessionRecreateHistory
              /\ sessionRecreateHistory[last.sender] = last.at
        /\ ~last.fetched =>
              /\ (last.sender \in DOMAIN sessionRecreateHistory) = last.prevKnown
              /\ LoadInt(sessionRecreateHistory, last.sender) = last.prevTime

\* C10 witness: a session exists, retryCount is 2 and the last recreation is 61
\* minutes old: the bundle is fetched and the recreation time becomes the present
C10_Witness ==
    /\ last.reached /\ ~last.hasKeys
    /\ last.hadSession /\ last.count = 2
    /\ last.prevKnown /\ last.prevTime = 0 /\ last.at = recreateSessionTimeout + 1
    /\ last.fetched
    /\ sessionRecreateHistory[last.sender] = last.at

\* C10, the other side of the hour: 59 and 60 minutes after the last recreation
\* no bundle is fetched
C10_WitnessNoFetch ==
    /\ last.reached /\ ~last.hasKeys
    /\ last.hadSession /\ last.count = 2
    /\ last.prevKnown /\ last.at - last.prevTime = recreateSessionTimeout
    /\ ~last.fetched

\* the counts of the retry receipts sent for a message id, in order
SentCounts(id) == IF id \in DOMAIN receipts THEN receipts[id] ELSE <<>>

\* C8: for a message id whose calls carried no count attribute (and lost no
\* receipt to a marshalling or socket failure), the n-th sendRetryReceipt call
\* sent a receipt with count n for n = 1..4, and the fifth and later calls sent
\* none
C8_FourReceipts ==
    \A id \in InboundIDs \ fancyCalls :
        LET n == LoadInt(calls, id)
        IN  SentCounts(id) = [i \in 1..(IF n < 4 THEN n ELSE 4) |-> i]

\* C8: a message id called more than five times with exactly the four receipts
C8_Witness ==
    \E id \in InboundIDs \ fancyCalls :
        /\ LoadInt(calls, id) > 5
        /\ SentCounts(id) = <<1, 2, 3, 4>>

\* C9: with the option on, once cancelDelayedRequestFromPhone(id) ran after the
\* task was scheduled and before its delay elapsed, no unavailable-message
\* request is sent for that id
C9_CancelPreventsRequest ==
    AutomaticMessageRerequestFromPhone =>
        \A id \in cancelledInTime : LoadInt(requested, id) = 0

\* the nodes handleFrame pushed onto the dispatch queue, in arrival order
QueuedNodes ==
    LET queued == SelectSeq(frameLog, LAMBDA e : e.route = "queued")
    IN  [i \in DOMAIN queued |-> queued[i].node]

\* the nodes that are or were on the dispatch queue
DispatchedNodes ==
    Range(handlerQueue) \cup blockedPushes \cup {handlers[h].node : h \in DOMAIN handlers}

\* C1: as long as no push found the queue full, the tag handler has been invoked
\* on the queued stanzas in their arrival order
C1_ArrivalOrder ==
    (\A i \in DOMAIN frameLog : frameLog[i].route # "overflow") =>
        /\ Len(invoked) <= Len(QueuedNodes)
        /\ \A i \in DOMAIN invoked : invoked[i] = QueuedNodes[i]

\* C2: a stanza (other than the stream end) whose id names a registered waiter
\* is delivered to that waiter, which receives nothing else, and is never put on
\* the dispatch queue; a second stanza with that id, no waiter having been
\* registered in between, is delivered to no waiter and is routed by its tag:
\* queued when the tag has a handler, dropped otherwise
C2_OneShot ==
    /\ \A i \in DOMAIN frameLog :
          (frameLog[i].waiter # 0 /\ frameLog[i].node.tag # "xmlstreamend") =>
              /\ frameLog[i].route = "waiter"
              /\ got[frameLog[i].waiter] = <<frameLog[i].node>>
              /\ frameLog[i].node \notin DispatchedNodes
    /\ \A i, j \in DOMAIN frameLog :
          (/\ i < j
           /\ frameLog[i].route = "waiter"
           /\ frameLog[j].node.id = frameLog[i].node.id
           /\ frameLog[j].registered = frameLog[i].registered) =>
              /\ \A w \in DOMAIN got : frameLog[j].node \notin Range(got[w])
              /\ IF frameLog[j].node.tag \in nodeHandlers
                 THEN /\ frameLog[j].route \in {"queued", "overflow"}
                      /\ frameLog[j].node \in DispatchedNodes
                 ELSE /\ frameLog[j].route \in {"streamend", "unhandled", "ack"}
                      /\ frameLog[j].node \notin DispatchedNodes

\* C2: two stanzas with the id of a registered waiter arrived; the first went
\* to the waiter and the second onto the dispatch queue
C2_Witness ==
    \E i, j \in DOMAIN frameLog :
        /\ i < j
        /\ frameLog[i].route = "waiter"
        /\ frameLog[j].node.id = frameLog[i].node.id
        /\ frameLog[j].registered = frameLog[i].registered
        /\ frameLog[j].route = "queued"

\* C3: every waiter that was pending at a disconnect has received the stream
\* end exactly once and nothing else; after a disconnect the registry holds only
\* waiters registered since; and a stanza whose id names a registered waiter
\* (also one registered after a reconnect) is delivered to it
C3_DisconnectClearsWaiters ==
    /\ \A w \in endedWaiters : got[w] = <<xmlStreamEndNode>>
    /\ Range(responseWaiters) \subseteq freshWaiters
    /\ \A w \in Range(responseWaiters) : got[w] = <<>>
    /\ \A i \in DOMAIN frameLog :
          frameLog[i].waiter # 0 =>
              /\ frameLog[i].route = "waiter"
              /\ got[frameLog[i].waiter] = <<frameLog[i].node>>

\* C3: a waiter pending at a disconnect received the stream end, and a waiter
\* registered after the reconnect received its matching stanza
C3_Witness ==
    \E w1 \in endedWaiters, i \in DOMAIN frameLog :
        /\ got[w1] = <<xmlStreamEndNode>>
        /\ frameLog[i].waiter > w1
        /\ got[frameLog[i].waiter] = <<frameLog[i].node>>
        /\ socketsMade > 1

\* C11 (as stated): an autoReconnect task that starts from AutoReconnectErrors = 0
\* and is alone in the loop sleeps 2*k seconds before its k-th attempt (2, 4, 6)
C11_BackoffTwoFourSix ==
    ~overlapped =>
        \A t \in DOMAIN reconnectTasks :
            reconnectTasks[t].start = 0 =>
                \A k \in 1..Len(reconnectTasks[t].sleeps) :
                    reconnectTasks[t].sleeps[k] = 2 * k

\* C11 (amended): the delay is taken before the increment, so a task that enters
\* the loop with an error count of n and is alone in it sleeps 2*(n+k-1) seconds
\* before its k-th attempt: 0, 2, 4 from a count of zero
C11_BackoffFromCount ==
    ~overlapped =>
        \A t \in DOMAIN reconnectTasks :
            \A k \in 1..Len(reconnectTasks[t].sleeps) :
                reconnectTasks[t].sleeps[k] = 2 * (reconnectTasks[t].start + k - 1)

\* one task, started from zero, is at its second attempt after a failed first
C11_Witness ==
    /\ ~overlapped
    /\ \E t \in DOMAIN reconnectTasks :
           /\ reconnectTasks[t].start = 0
           /\ reconnectTasks[t].pc = "connect"
           /\ Len(reconnectTasks[t].sleeps) = 2

\* the step of onDisconnect(ns, remote) under the lock
OnDisconnectStep(ns) ==
    /\ ns \in DOMAIN callbacks
    /\ callbacks[ns].pc = "lock"
    /\ callbacks'[ns].pc = "done"

\* C12: onDisconnect(ns, remote) dispatches Disconnected and spawns autoReconnect
\* exactly when ns is the current socket, remote is true and the expected-
\* disconnect flag is clear, then exactly one of each; otherwise neither
C12_DisconnectedIffUnexpectedRemote ==
    [][\A ns \in DOMAIN callbacks :
          OnDisconnectStep(ns) =>
              IF socket = ns /\ callbacks[ns].remote /\ ~expectedDisconnectVal
              THEN /\ disconnectedEvents' = disconnectedEvents + 1
                   /\ autoReconnects' = autoReconnects + 1
              ELSE UNCHANGED <<disconnectedEvents, autoReconnects>>]_vars

\* C12: onDisconnect has dropped the current socket and emitted one event and
\* one task
C12_Witness ==
    /\ disconnectedEvents = 1
    /\ autoReconnects = 1
    /\ \E ns \in DOMAIN droppedBy :
           droppedBy[ns] = "onDisconnect" /\ callbacks[ns].pc = "done"

\* C13: a Connect() on a live socket returns ErrAlreadyConnected and leaves the
\* socket, the expected-disconnect flag and the waiters as they were; on a dead
\* socket it first stops the socket, drops the handle and ends every waiter with
\* the stream end, then goes on to open a new connection
C13_ConnectOnLiveAndDead ==
    [][/\ (connectResult'.ret = "ErrAlreadyConnected"
              /\ connectResult.ret # "ErrAlreadyConnected") =>
                  /\ socket # NoSocket /\ socket \in connected
                  /\ UNCHANGED <<socket, connected, expectedDisconnectVal,
                                 responseWaiters, got, connecting>>
       /\ (connectResult'.ret = "opening" /\ connectResult.ret # "opening") =>
                  /\ ~(socket # NoSocket /\ socket \in connected)
                  /\ connecting'
                  /\ ~expectedDisconnectVal'
                  /\ socket' = NoSocket
                  /\ socket # NoSocket =>
                        /\ socket \in ctxDone'
                        /\ socket \notin connected'
                        /\ responseWaiters' = EmptyMap
                        /\ \A w \in Range(responseWaiters) :
                               got'[w] = Append(got[w], xmlStreamEndNode)]_vars

\* C13: a Connect() found a dead socket with waiters pending, ended them and is
\* opening the new connection
C13_Witness ==
    /\ connectResult.ret = "opening"
    /\ connecting
    /\ connectResult.dropped # NoSocket
    /\ connectResult.cleared # {}
    /\ \A w \in connectResult.cleared : got[w] = <<xmlStreamEndNode>>

\* C14: the locked step of Disconnect() emits no Disconnected event and spawns
\* no autoReconnect task; both come only from an onDisconnect with remote true
\* on the current socket; and an onDisconnect for a socket already dropped
\* changes nothing
C14_DisconnectIsSilent ==
    [][/\ (disconnecting /\ ~disconnecting') =>
              UNCHANGED <<disconnectedEvents, autoReconnects>>
       /\ (disconnectedEvents' # disconnectedEvents
              \/ autoReconnects' # autoReconnects) =>
                  \E ns \in DOMAIN callbacks :
                      /\ OnDisconnectStep(ns)
                      /\ callbacks[ns].remote
                      /\ socket = ns
       /\ \A ns \in DOMAIN droppedBy :
              OnDisconnectStep(ns) =>
                  UNCHANGED <<socket, expectedDisconnectVal, responseWaiters, got,
                              disconnectedEvents, autoReconnects>>]_vars

\* C14: the callback of a socket that Disconnect() had dropped has run and no
\* event was emitted
C14_Witness ==
    /\ disconnectedEvents = 0
    /\ autoReconnects = 0
    /\ \E ns \in DOMAIN droppedBy :
           /\ droppedBy[ns] = "Disconnect"
           /\ ns \in DOMAIN callbacks
           /\ callbacks[ns].pc = "done"

\* C15: when a subscriber panics in dispatchEvent, every other subscriber
\* registered at the time, those after the panicking one included, still
\* receives the event
C15_PanicIsolated ==
    \A d \in DOMAIN dispatches :
        dispatches[d].pc = "done" => dispatches[d].delivered = dispatches[d].expected

\* C16: the list holds exactly the ids added and not removed, in registration
\* order; a dispatch invokes the subscribers in that order, all of them when
\* none panics; RemoveEventHandler(id) returns true iff it found the id
C16_RegistrationOrder ==
    /\ IDs(eventHandlers) = registered
    /\ \A i, j \in DOMAIN registered : i < j => registered[i] < registered[j]
    /\ \A d \in DOMAIN dispatches :
          LET disp == dispatches[d]
          IN  /\ Len(disp.delivered) <= Len(disp.expected)
              /\ disp.delivered = SubSeq(disp.expected, 1, Len(disp.delivered))
              /\ (disp.pc = "done" /\ ~disp.panicked) => disp.delivered = disp.expected
    /\ \A c \in DOMAIN removeCalls :
          /\ removeCalls[c].ret = "true" =>
                /\ removeCalls[c].pos # "absent"
                /\ \A i \in DOMAIN registered : registered[i] # removeCalls[c].id
          /\ removeCalls[c].ret = "false" => removeCalls[c].pos = "absent"

\* C16: a middle entry of three was removed by id, and a
\* later dispatch invoked the two survivors in order
C16_Witness ==
    /\ \E c \in DOMAIN removeCalls :
          removeCalls[c].ret = "true" /\ removeCalls[c].pos = "middle"
    /\ \E d \in DOMAIN dispatches :
          /\ dispatches[d].pc = "done"
          /\ dispatches[d].delivered = <<1, 3>>

\* C17: a subscriber that calls RemoveEventHandler from inside dispatchEvent
\* never returns from it and its dispatch keeps the read lock; a removal never
\* takes the write lock while a dispatch holds the read lock; and the removals
\* called from spawned tasks all return, unless a dispatch is stuck in that way
C17_SyncRemoveDeadlocks ==
    /\ [][/\ \A d \in DOMAIN dispatches :
                dispatches[d].pc = "removing" =>
                    dispatches'[d].pc = "removing" /\ d \in readers'
          /\ \A c \in DOMAIN removeCalls :
                (removeCalls[c].ret = "waiting" /\ removeCalls'[c].ret # "waiting") =>
                    readers = {}]_vars
    /\ (\E c \in DOMAIN removeCalls :
            removeCalls[c].by = 0 /\ removeCalls[c].ret = "waiting")
          ~> \/ \A c \in DOMAIN removeCalls :
                    removeCalls[c].by = 0 => removeCalls[c].ret # "waiting"
             \/ \E d \in DOMAIN dispatches : dispatches[d].pc = "removing"

\* C17: a dispatch is stuck in a subscriber's own removal, which waits while
\* the subscriber is still in the list, behind a removal that another
\* subscriber of the same dispatch spawned
C17_Witness ==
    \E d \in DOMAIN dispatches, c, a \in DOMAIN removeCalls :
        /\ dispatches[d].pc = "removing" /\ d \in readers
        /\ removeCalls[c].by = d /\ removeCalls[c].ret = "waiting"
        /\ \E i \in DOMAIN eventHandlers : eventHandlers[i].id = removeCalls[c].id
        /\ removeCalls[a].by = 0 /\ removeCalls[a].ret = "waiting"

\* C18: every call stanza gets exactly one ack and exactly one event:
\* UnknownCallEvent unless it has exactly one child with one of the seven known
\* tags, and then the event of that tag
C18_OneAckOneEvent ==
    /\ callAcks = callStanzas
    /\ Len(callEvents) = Len(callStanzas)
    /\ \A i \in DOMAIN callStanzas :
          LET node == callStanzas[i]
              known == {"offer", "offer_notice", "relaylatency", "accept",
                        "preaccept", "transport", "terminate"}
          IN  IF Len(node.Children) # 1 \/ node.Children[1].Tag \notin known
              THEN callEvents[i] = [type |-> "UnknownCallEvent", Node |-> node]
              ELSE /\ callEvents[i].Data = node.Children[1]
                   /\ callEvents[i].type =
                         CASE node.Children[1].Tag = "offer" -> "CallOffer"
                           [] node.Children[1].Tag = "offer_notice" -> "CallOfferNotice"
                           [] node.Children[1].Tag = "relaylatency" -> "CallRelayLatency"
                           [] node.Children[1].Tag = "accept" -> "CallAccept"
                           [] node.Children[1].Tag = "preaccept" -> "CallPreAccept"
                           [] node.Children[1].Tag = "transport" -> "CallTransport"
                           [] node.Children[1].Tag = "terminate" -> "CallTerminate"

\* C18: a stanza with a bogus child and one with a terminate child were handled
C18_Witness ==
    \E i, j \in DOMAIN callEvents :
        /\ callStanzas[i].Children # <<>>
        /\ callEvents[i].type = "UnknownCallEvent"
        /\ callEvents[j].type = "CallTerminate"

\* C19: the CallOffer of a stanza whose only child is an offer has from and
\* timestamp of the outer attributes, callCreator and callID of the child, and
\* remotePlatform and remoteVersion of the child's platform and version
C19_OfferFields ==
    \A i \in DOMAIN callStanzas :
        LET node == callStanzas[i]
        IN  (Len(node.Children) = 1 /\ node.Children[1].Tag = "offer"
                /\ {"platform", "version"} \subseteq DOMAIN node.Children[1].Attrs) =>
                /\ callEvents[i].type = "CallOffer"
                /\ callEvents[i].BasicCallMeta =
                      [From |-> [User |-> "X", Server |-> "s"],
                       Timestamp |-> 1700000000,
                       CallCreator |-> [User |-> "Y", Server |-> "s"],
                       CallID |-> "C1"]
                /\ callEvents[i].CallRemoteMeta =
                      [RemotePlatform |-> node.Children[1].Attrs["platform"],
                       RemoteVersion |-> node.Children[1].Attrs["version"]]

\* C20 (as stated): a call that was blocked when the readiness channel was
\* closed on a ready client, before its timeout, wakes, tests again and
\* returns true
C20_WokenReturnsTrue ==
    \A w \in DOMAIN waitCalls :
        waitCalls[w].promised => waitCalls[w].pc \in {"woken", "true"}

\* C20 (amended): no wake-up is lost: a blocked call waits on the current
\* channel or on one already closed, and a close wakes every call parked; a
\* woken call tests again under the read lock and returns true exactly when the
\* client is ready at that test, and waits again otherwise; false is returned
\* only by a call whose timeout has fired
C20_NoLostWakeup ==
    /\ [](\A w \in DOMAIN waitCalls :
            /\ waitCalls[w].pc \in {"select", "parked"} =>
                  waitCalls[w].ch = socketWait \/ waitCalls[w].ch \in closedChans
            /\ waitCalls[w].pc = "parked" => waitCalls[w].ch \notin closedChans
            /\ waitCalls[w].pc = "false" => waitCalls[w].timedOut)
    /\ [][\A w \in DOMAIN waitCalls :
            /\ (waitCalls[w].pc = "parked" /\ socketWait' # socketWait) =>
                  waitCalls'[w].pc = "woken"
            /\ (waitCalls[w].pc = "woken" /\ waitCalls'[w].pc # "woken") =>
                  /\ ~connecting
                  /\ waitCalls'[w].pc = IF clientReady THEN "true" ELSE "select"]_vars

\* C20: a call that was parked when the channel was closed on a ready client
\* has returned true
C20_Witness ==
    \E w \in DOMAIN waitCalls :
        /\ waitCalls[w].promised
        /\ waitCalls[w].pc = "true"
        /\ ~waitCalls[w].timedOut

\* C21: IsLoggedIn() is true iff the authentication of the current connection
\* has completed and nothing has dropped that connection's socket since; it is
\* false once Disconnect() has returned
C21_LoggedInIffAuthenticated ==
    isLoggedIn <=> (socket # NoSocket /\ authenticated = socket)

\* C22: a retry receipt that the configured PreRetryCallback refuses ends the
\* call without error: no message stanza is sent, no prekey bundle is fetched
\* and the session-recreation history is what it was
C22_VetoIsQuiet ==
    (last.callback = "false" /\ LastCounted
        /\ last.outcome \notin {"dropped", "notloggedin"}) =>
            /\ last.outcome = "vetoed"
            /\ last.nSent = 0 /\ last.stanza = NoStanza
            /\ ~last.fetched /\ ~last.reached
            /\ (last.sender \in DOMAIN sessionRecreateHistory) = last.prevKnown
            /\ LoadInt(sessionRecreateHistory, last.sender) = last.prevTime

\* C22: the callback refused a receipt without keys from a device that has no
\* session and no recorded recreation: nothing was fetched or recorded
C22_Witness ==
    /\ last.outcome = "vetoed"
    /\ ~last.hasKeys /\ ~last.hadSession
    /\ last.sender \notin DOMAIN sessionRecreateHistory
    /\ last.nSent = 0

\* C23: across connects, disconnects and reconnects at most one
\* handlerQueueLoop works on the dispatch queue at any time: no two consumers
\* hold a stanza they took from the queue at once
C23_OneConsumer ==
    Cardinality({s \in DOMAIN consumers : consumers[s].pc = "wait"}) <= 1

\* where a node handed to the dispatch queue is: the places that hold it
PendingPush(node) == IF node \in blockedPushes THEN 1 ELSE 0
InQueue(node) == Cardinality({i \in DOMAIN handlerQueue : handlerQueue[i] = node})
InHandlers(node) == Cardinality({h \in DOMAIN handlers : handlers[h].node = node})

\* C24: a stanza routed to a full queue is neither dropped nor does it stop the
\* reader: the default branch (one ordering warning, one detached pushing task)
\* is taken once for it, so it is held by exactly one of a pending push, the
\* queue or a handler; a stanza routed while the queue has room is enqueued
\* directly and no task is spawned for it
C24_OverflowIsDeferred ==
    /\ \A i \in DOMAIN frameLog :
          LET f == frameLog[i]
          IN  /\ f.route = "overflow" =>
                    PendingPush(f.node) + InQueue(f.node) + InHandlers(f.node) = 1
              /\ f.route = "queued" =>
                    /\ PendingPush(f.node) = 0
                    /\ InQueue(f.node) + InHandlers(f.node) = 1
    /\ \A node \in blockedPushes :
          \E i \in DOMAIN frameLog :
              frameLog[i].node = node /\ frameLog[i].route = "overflow"
    /\ Len(handlerQueue) <= SmallQueueSize

\* C24: a stanza found the queue full, its detached push went through later
\* and a handler was spawned for it
C24_Witness ==
    \E i \in DOMAIN frameLog :
        /\ frameLog[i].route = "overflow"
        /\ InHandlers(frameLog[i].node) = 1
        /\ PendingPush(frameLog[i].node) = 0

\* C25: once the context of a socket is cancelled, the handlerQueueLoop started
\* for that socket takes no further stanza from the dispatch queue
C25_NoTakeAfterCancel ==
    [][\A s \in DOMAIN consumers :
          (s \in ctxDone /\ consumers[s].pc # "wait") => consumers'[s].pc # "wait"]_vars

\* the step in which a Disconnect() call past its nil test runs under the lock
\* and returns
DisconnectStep == disconnecting /\ ~disconnecting'

\* C26 as stated: when Disconnect() completes on a connected client the
\* expected-disconnect flag is set, the socket handle is nil and the
\* response-waiter registry is empty
C26_DisconnectSetsExpected ==
    [][(DisconnectStep /\ socket # NoSocket) =>
          /\ expectedDisconnectVal'
          /\ socket' = NoSocket
          /\ responseWaiters' = EmptyMap]_vars

\* C26, amended: when Disconnect() completes the socket handle is nil and, if
\* the client still had its socket when the lock was taken, the response-waiter
\* registry is empty; the expected-disconnect flag is left as it was
C26_DisconnectClears ==
    [][DisconnectStep =>
          /\ socket' = NoSocket
          /\ socket # NoSocket => responseWaiters' = EmptyMap
          /\ expectedDisconnectVal' = expectedDisconnectVal]_vars

\* C26: no socket ever closed on its own, Disconnect() has returned after
\* ending pending waiters, and the flag is still clear
C26_Witness ==
    /\ socketsMade >= 1 /\ callbacks = EmptyMap
    /\ ~disconnecting /\ ~connecting
    /\ socket = NoSocket /\ responseWaiters = EmptyMap
    /\ endedWaiters # {}
    /\ ~expectedDisconnectVal

\* C27: for each (sender, message id) no two retry receipts are processed at
\* the same value of the outbound retry counter, concurrent handleRetryReceipt
\* calls included
C27_DistinctCounters ==
    \A t, u \in DOMAIN retryTasks :
        (/\ t # u
         /\ retryTasks[t].key = retryTasks[u].key
         /\ retryTasks[t].pc = "done" /\ retryTasks[u].pc = "done")
            => retryTasks[t].internalCounter # retryTasks[u].internalCounter

\* an autoReconnect task t returns in this step
ReconnectExits(t) == reconnectTasks[t].pc # "done" /\ reconnectTasks'[t].pc = "done"

C29_StaysDisconnected == userDisconnected => socket = NoSocket

\* the delayedRequestMessageFromPhone tasks of a message id that have stored
\* their cancel handle and have not yet returned
PendingTasks(id) ==
    {t \in DOMAIN tasks : tasks[t].id = id /\ tasks[t].pc \in {"wait", "send"}}

\* C30: for each message id at most one delayed phone-rerequest task is pending
\* at a time, however the concurrent calls for that id interleave
C30_OnePendingTask ==
    \A id \in InboundIDs : Cardinality(PendingTasks(id)) <= 1

=============================================================================
